---- MODULE Spec2Model ----
(***************************************************************************)
(* The download orchestration core of ts-tailwindplus-downloader:          *)
(* TailwindPlusDownloader (src/src/downloader/downloader.ts), its Workers  *)
(* (src/unnamed/part_004) and the result merge (src/src/downloader/        *)
(* output.ts).                                                             *)
(*                                                                         *)
(* The program runs on one JavaScript event loop.  A coroutine (an async   *)
(* function) runs without interruption from one `await` to the next; the   *)
(* variable `running` holds the worker that is executing synchronously, or *)
(* is empty when the event loop is free to resume any settled `await`.     *)
(* The orchestrator's synchronous segments are single actions.             *)
(***************************************************************************)
EXTENDS Integers, Sequences, FiniteSets, TLC

\* Bounds of the model: the urls discovered plus the workers asked for, the
\* formats (passes) of a run, and the failing attempts of one pass
MaxLoad == 4
MaxFormats == 2
MaxFailures == 4

\* Bound of the Worker contract's client: the stop() calls made on a worker
\* between two start() calls
MaxStopCalls == 3

\* Bound of the merge's inputs: the component entries of one partial result
MaxLeaves == 2

\* The most snippets of the component entries of a tree given to the
\* deduplication, all entries together
MaxSnippets == 3

\* The most applications of the deduplication to one tree
MaxDedupCalls == 2

\* The most login attempts (calls of resilientLogin) of one handshake: the
\* user gives up after that many
MaxLoginAttempts == 2

\* The consecutive runs of the session round trip
MaxRuns == 2

\* config.retries.maxRetries
maxRetries == 3

\* `undefined`: the value of a job variable that holds no Job
NoJob == 0

\* config.loginTimeout, resilientLogin's outcomeTimeout and the
\* page.waitForTimeout before a re-fill, in milliseconds
loginTimeout == 15000
outcomeTimeout == 5000
retryWait == 100

\* `undefined` job.data
NoData == << >>

VARIABLES
    unauthenticated,  \* options.unauthenticated
    optWorkers,       \* options.workers
    numUrls,          \* this._urls.length
    numFormats,       \* this.formats.length
    startFormat,      \* the format generateFormats is given as the current one
    formats,          \* this.formats, once generated (the schedule of the passes)
    partials,         \* the partial results (job.data) handed to the merge
    mergeOrder,       \* history: the partial results merged so far, in call order
    orch,             \* the orchestrator's position in start()
    err,              \* an error is propagating out of start()'s try block
    browser,          \* this.browser: "none" | "open" | "closed"
    contextOptions,   \* this.contextOptions: the storage state it carries
    mainSession,      \* the authenticated session of the main context
    fmtIdx,           \* index in this.formats of this.currentFormat (0: null)
    jobQueue,         \* this.jobQueue, a sequence of Jobs (by url index)
    jobs,             \* the Job objects of the current pass, by url index
    componentData,    \* this.componentData: leaf -> sequence of snippets
    written,          \* _writeOutput has written the output
    componentCount,   \* this.componentCount
    running,          \* the worker executing synchronously ({} when none)
    wpc,              \* each worker's position in start() / stop()
    wstate,           \* Worker.state
    context,          \* Worker.context: "null" | "open" | "closed"
    page,             \* Worker.page is set
    wsession,         \* the storage state each worker's context was created from
    held,             \* the local `job` of each worker's loop
    plan,             \* environment: how many attempts of each url fail in this pass
    attempts,         \* history: extraction attempts of each Job in this pass
    failedBy,         \* history: the worker whose attempt failed, for a Job being retried
    sawEmpty,         \* history: the worker left its loop on an empty queue
    stopCalled,       \* history: stop() was invoked on the worker since its start()
    stopCalls,        \* history: the stop() calls on the worker since its start()
    closeCalls,       \* history: the context.close() calls of the worker since its start()
    droppedJobs,      \* history: <<pass, url>> of the Jobs dropped after exhausting retries
    output,           \* _writeOutput's `data`: what is handed to the output writers
    dedupCalls,       \* history: the deduplications that produced `output`
    hpc,              \* the handshake's position in ensureAuthenticated
    interactive,      \* process.stdin.isTTY
    credFile,         \* the credentials file exists and parses
    sessionFile,      \* the session file: as found ("absent", "corrupt", "valid", "invalid") or "fresh"
    gotoAttempt,      \* retryGoto's `attempt` (0 outside retryGoto)
    credentials,      \* login's `credentials`: 0 none, n the n-th entered
    hlog,             \* history: validations, prompts, attempts, results, saves
    elapsed,          \* Date.now() - startTime of the running resilientLogin
    settled,          \* what settled first in the race of this iteration
    winner,           \* resilientLogin's `winner` of this iteration
    result,           \* login's `result` of the last resilientLogin
    herror,           \* the error ensureAuthenticated threw ("none": none)
    outputExists,     \* fs.existsSync(options.output) when start() is called
    overwrite,        \* options.overwrite
    stdin,            \* the process's standard input: "tty", "pipe" or "eof"
    overwriteAnswer,  \* the answer to start()'s overwrite prompt, as characters
    attempt,          \* discoverUrls' `attempt` (0 before and after a discovery that returned)
    sfpc,             \* setFormat's position
    site,             \* the format the account holds on the site, as its controls show it
    targetFormat,     \* setFormat's `targetFormat`
    currentFormat,    \* setFormat's `currentFormat`
    awaited,          \* the control whose `responsePromise` setFormat awaits ("none": none)
    inflight,         \* the format-change requests sent and not yet answered
    changes,          \* history: the controls setFormat has changed, in order
    sferror,          \* what setFormat threw: "none", "DownloaderError" or "raw"
    optSession,       \* options.session: the path given with --session, or the default
    sessionStore,     \* the session files on disk, by path
    runNo,            \* which of the consecutive runs with the same options this is
    rtpc,             \* the run's position in _initializeBrowser and ensureAuthenticated
    savedTo           \* the path the last saveSession wrote ("none": none so far)

vars == << unauthenticated, optWorkers, numUrls, numFormats, startFormat, formats,
           partials, mergeOrder,
           orch, err, browser,
           contextOptions, mainSession, wsession,
           fmtIdx, jobQueue, jobs, componentData, written, componentCount,
           running, wpc, wstate, context, page, held, plan, attempts, failedBy,
           sawEmpty, stopCalled, stopCalls, closeCalls, droppedJobs,
           output, dedupCalls,
           hpc, interactive, credFile, sessionFile, gotoAttempt, credentials, hlog,
           elapsed, settled, winner, result, herror,
           outputExists, overwrite, stdin, overwriteAnswer, attempt,
           sfpc, site, targetFormat, currentFormat, awaited, inflight, changes, sferror,
           optSession, sessionStore, runNo, rtpc, savedTo >>

optVars == << unauthenticated, optWorkers, numUrls, numFormats >>
orchVars == << orch, err, browser, fmtIdx, written, componentCount >>
formatVars == << startFormat, formats >>
mergeVars == << partials, mergeOrder >>
dedupVars == << output, dedupCalls >>
authVars == << hpc, interactive, credFile, sessionFile, gotoAttempt, credentials,
              hlog, elapsed, settled, winner, result, herror >>
setFormatVars == << sfpc, site, targetFormat, currentFormat, awaited, inflight, changes,
                   sferror >>
roundTripVars == << optSession, sessionStore, runNo, rtpc, savedTo >>
startVars == << outputExists, overwrite, stdin, overwriteAnswer, attempt >>
sessionVars == << contextOptions, mainSession >>
workerVars == << wpc, wstate, context, wsession, page, held, sawEmpty, stopCalled, stopCalls, closeCalls >>
jobVars == << jobQueue, jobs, plan, attempts, failedBy, droppedJobs >>

Min(a, b) == IF a < b THEN a ELSE b

Urls == 1 .. numUrls

\* numWorkers = Math.min(options.workers, urls.length); worker ids are 1..numWorkers
Workers == 1 .. Min(optWorkers, numUrls)

RECURSIVE SumUpTo(_, _)
SumUpTo(p, n) == IF n = 0 THEN 0 ELSE p[n] + SumUpTo(p, n - 1)

\* What the site may do to the attempts of a pass: p[u] is the number of
\* attempts of url u that fail (its first p[u] attempts), at most MaxFailures
\* failing attempts in all
Plans == { p \in [Urls -> 0 .. (maxRetries + 1)] : SumUpTo(p, numUrls) <= MaxFailures }


(***************************************************************************)
(* Result trees (ComponentData).  A tree is a function from keys to nodes; *)
(* a node is a component entry, a record with a `snippets` sequence, or a  *)
(* container (product, category, subcategory), itself a tree.              *)
(***************************************************************************)

Range(s) == { s[i] : i \in DOMAIN s }


\* Array.isArray(obj['snippets']): the node is a component entry
IsEntry(node) == "snippets" \in DOMAIN node

\* (mutant) the source's snippets replace the target's
ReplaceSnippets(old, new) == new

\* (mutant) the target's snippets are kept and the source's are lost
KeepSnippets(old, new) == old

\* targetEntry.snippets.concat(obj['snippets'])
ConcatSnippets(old, new) == old \o new

\* mergeComponentData(target, source): for every key of source, a component
\* entry is copied when target has none and concatenated to target's
\* otherwise; a container is created in target when absent and merged into
RECURSIVE MergeComponentData(_, _)
MergeComponentData(target, source) ==
    [key \in (DOMAIN target) \cup (DOMAIN source) |->
        IF key \notin DOMAIN source THEN target[key]
        ELSE IF IsEntry(source[key])
        THEN IF key \notin DOMAIN target
             THEN [name |-> source[key].name, snippets |-> source[key].snippets]
             ELSE [target[key] EXCEPT
                      !.snippets = ConcatSnippets(@, source[key].snippets)]
        ELSE MergeComponentData(IF key \in DOMAIN target THEN target[key] ELSE << >>,
                                source[key])]

\* (mutant) every snippet is counted
EntryCountSnippets(entry) == Len(entry.snippets)

\* countComponents: `count++` for a component entry
EntryCount(entry) == 1

\* countComponents(data), over the values at the given keys of data
RECURSIVE CountAt(_, _)
CountAt(data, keys) ==
    IF keys = {} THEN 0
    ELSE LET key == CHOOSE k \in keys : TRUE
             here == IF IsEntry(data[key]) THEN EntryCount(data[key])
                     ELSE CountAt(data[key], DOMAIN data[key])
         IN  here + CountAt(data, keys \ { key })

\* countComponents(data): the number of component entries in the tree
CountComponents(data) == CountAt(data, DOMAIN data)

\* The tree whose component entries are given by `leaves`, a function from
\* paths (product, category, subcategory, component) to snippet sequences;
\* this is the part of it below the path `prefix`
RECURSIVE Subtree(_, _)
Subtree(leaves, prefix) ==
    LET below == { p \in DOMAIN leaves : SubSeq(p, 1, Len(prefix)) = prefix }
    IN  [key \in { p[Len(prefix) + 1] : p \in below } |->
            IF (prefix \o << key >>) \in DOMAIN leaves
            THEN [name |-> key, snippets |-> leaves[prefix \o << key >>]]
            ELSE Subtree(leaves, prefix \o << key >>)]

TreeOf(leaves) == Subtree(leaves, << >>)

\* The paths of the component entries of a tree
RECURSIVE LeafPaths(_)
LeafPaths(data) ==
    UNION { IF IsEntry(data[key]) THEN { << key >> }
            ELSE { << key >> \o p : p \in LeafPaths(data[key]) } : key \in DOMAIN data }

\* The snippets of the component entry at `path` (none when there is no
\* entry at that path)
RECURSIVE SnippetsAtPath(_, _)
SnippetsAtPath(data, path) ==
    IF path = << >> \/ Head(path) \notin DOMAIN data THEN << >>
    ELSE IF IsEntry(data[Head(path)])
    THEN (IF Len(path) = 1 THEN data[Head(path)].snippets ELSE << >>)
    ELSE SnippetsAtPath(data[Head(path)], Tail(path))

\* Where the component of the page at url u is in the tree: every page is a
\* subcategory of its own
PathOf(u) == << "product", "category", ToString(u), "component" >>

\* The ComponentData an extraction of url u returns: in authenticated mode one
\* snippet in the current format, in unauthenticated mode one per format
ExtractedData(u) ==
    TreeOf([p \in { PathOf(u) } |->
               IF unauthenticated THEN [i \in 1 .. numFormats |-> i]
               ELSE << fmtIdx >>])

\* The snippets of tree `data` for url u (none when the leaf is absent)
SnippetsAt(data, u) == SnippetsAtPath(data, PathOf(u))

(***************************************************************************)
(* Deduplication (deduplicateEcommerceSnippets).  In the trees given to it *)
(* a snippet is a record of the fields of a Snippet that identify it: name *)
(* (the framework), version, mode and supportsDarkMode; its code, language *)
(* and preview are those the site serves for these.                        *)
(***************************************************************************)

\* `${snippet.name}|${snippet.version}|${snippet.supportsDarkMode}`
SnippetKey(snippet) ==
    snippet.name \o "|" \o ToString(snippet.version) \o "|"
        \o ToString(snippet.supportsDarkMode)

\* seen.has(key), `seen` being the Map as its entries in insertion order
SeenHas(seen, key) == \E i \in DOMAIN seen : seen[i].key = key

\* (mutant) seen.set(key, snippet) for every snippet: the entry keeps its
\* place in the Map and takes the later snippet as its value
SeenSetAlways(seen, key, snippet) ==
    IF SeenHas(seen, key)
    THEN [i \in DOMAIN seen |->
             IF seen[i].key = key THEN [key |-> key, value |-> snippet] ELSE seen[i]]
    ELSE Append(seen, [key |-> key, value |-> snippet])

\* if (!seen.has(key)) seen.set(key, snippet)
SeenSet(seen, key, snippet) ==
    IF SeenHas(seen, key) THEN seen
    ELSE Append(seen, [key |-> key, value |-> snippet])

\* The Map `seen` after the loop over the snippets
RECURSIVE SeenAfter(_, _)
SeenAfter(seen, snippets) ==
    IF snippets = << >> THEN seen
    ELSE SeenAfter(SeenSet(seen, SnippetKey(Head(snippets)), Head(snippets)),
                   Tail(snippets))

\* (mutant) only the last snippet whose key an earlier one carries is removed
DeduplicateSnippetsOnce(snippets) ==
    LET later == { i \in DOMAIN snippets :
                     \E j \in 1 .. (i - 1) : SnippetKey(snippets[j]) = SnippetKey(snippets[i]) }
        last == CHOOSE i \in later : \A j \in later : j <= i
    IN  IF later = {} THEN snippets
        ELSE SubSeq(snippets, 1, last - 1) \o SubSeq(snippets, last + 1, Len(snippets))

\* obj['snippets'] = Array.from(seen.values())
DeduplicateSnippets(snippets) ==
    LET seen == SeenAfter(<< >>, snippets)
    IN  [i \in DOMAIN seen |-> seen[i].value]

\* deduplicate(obj): the snippets of a component entry are deduplicated, and
\* every value of a container is visited
RECURSIVE Deduplicate(_)
Deduplicate(obj) ==
    IF IsEntry(obj) THEN [obj EXCEPT !.snippets = DeduplicateSnippets(@)]
    ELSE [key \in DOMAIN obj |-> Deduplicate(obj[key])]

\* deduplicateEcommerceSnippets(data): deduplicate(structuredClone(data));
\* the value returned is the clone, `data` is not written
DeduplicateEcommerceSnippets(data) == Deduplicate(data)

\* No output has been produced
DedupIdle ==
    /\ output = NoData
    /\ dedupCalls = 0

\* No handshake is in progress
AuthIdle ==
    /\ hpc = "idle"
    /\ interactive = FALSE
    /\ credFile = TRUE
    /\ sessionFile = "absent"
    /\ gotoAttempt = 0
    /\ credentials = 0
    /\ hlog = << >>
    /\ elapsed = 0
    /\ settled = "none"
    /\ winner = "none"
    /\ result = "none"
    /\ herror = "none"

\* Outside start()'s output check and discoverUrls
StartIdle ==
    /\ outputExists = FALSE
    /\ overwrite = FALSE
    /\ stdin = "tty"
    /\ overwriteAnswer = << >>
    /\ attempt = 0

(***************************************************************************)
(* Formats and their schedule (generateFormats, ReflectingArray)           *)
(***************************************************************************)

\* config.download.frameworks, versions and modes
Frameworks == << "react", "vue", "html" >>
Versions == << 3, 4 >>
Modes == << "system", "light", "dark" >>

\* Format.mode of a page without mode controls: null
NullMode == "null"

\* new Format({ framework, version, mode })
Format(f, v, m) == [framework |-> f, version |-> v, mode |-> m]

\* this.currentFormat before any format is known: null
NoFormat == [framework |-> "null", version |-> 0, mode |-> NullMode]

\* config.session, the default of --session
ConfigSession == ".ts-tailwindplus-downloader-session.json"

\* The paths a session file may be at: the default and one given with --session
SessionPaths == { ConfigSession, "custom-session.json" }

\* Outside the runs of the session round trip
RoundTripIdle ==
    /\ optSession = ConfigSession
    /\ sessionStore = [path \in SessionPaths |-> "absent"]
    /\ runNo = 0
    /\ rtpc = "idle"
    /\ savedTo = "none"

\* No setFormat is in progress
SetFormatIdle ==
    /\ sfpc = "idle"
    /\ site = NoFormat
    /\ targetFormat = NoFormat
    /\ currentFormat = NoFormat
    /\ awaited = "none"
    /\ inflight = 0
    /\ changes = << >>
    /\ sferror = "none"

\* The format an unauthenticated run starts from
UnauthenticatedStart == Format("html", 3, "light")

Reverse(items) == [i \in 1 .. Len(items) |-> items[Len(items) + 1 - i]]

\* (mutant) a plain array: every traversal runs forward
TraversalForward(items, n) == items

\* The n-th traversal of a ReflectingArray: forward, and the direction is
\* flipped at the end of every traversal
Traversal(items, n) == IF n % 2 = 1 THEN items ELSE Reverse(items)

\* (mutant) the start value is not filtered out of the configured values
WithoutNothing(items, x) == items

\* items.filter(y => y !== x)
Without(items, x) == SelectSeq(items, LAMBDA y : y # x)

\* generateFormats(startFormat, config): three nested for-of loops over the
\* reflecting arrays of the frameworks, the versions and the modes, each
\* headed by the start format's value; the versions are traversed once per
\* framework and the modes once per framework and version
GenerateFormats(start) ==
    LET frameworks == << start.framework >> \o Without(Frameworks, start.framework)
        versions == << start.version >> \o Without(Versions, start.version)
        modes == << IF start.mode = NullMode THEN Modes[1] ELSE start.mode >>
                     \o Without(Modes, start.mode)
        nV == Len(versions)
        nM == Len(modes)
        FormatAt(i, j, k) ==
            Format(Traversal(frameworks, 1)[i],
                   Traversal(versions, i)[j],
                   Traversal(modes, (i - 1) * nV + j)[k])
    IN  [n \in 1 .. (Len(frameworks) * nV * nM) |->
            FormatAt(((n - 1) \div (nV * nM)) + 1,
                     (((n - 1) \div nM) % nV) + 1,
                     ((n - 1) % nM) + 1)]

(***************************************************************************)
(* The event loop                                                          *)
(***************************************************************************)

\* (mutant) processJobResult suspends too, as if it awaited before ingesting
AwaitPointsWithReport == { "newContext", "newPage", "extract", "stopClose", "report" }

\* Positions at which a worker coroutine is suspended in an `await`
AwaitPoints == { "newContext", "newPage", "extract", "stopClose" }

\* Positions at which a worker coroutine is not running at all
Parked == { "idle", "done", "threw", "stopped" }

\* The holder of the thread once worker w is at position p
RunningAt(w, p) == IF p \in AwaitPoints \cup Parked THEN {} ELSE {w}

\* Worker w may take its next step
CanStep(w) == /\ orch # "exited"
              /\ running = RunningAt(w, wpc[w])

\* The orchestrator may take its next step
OrchCanStep == running = {}

(***************************************************************************)
(* The job queue                                                           *)
(***************************************************************************)

\* (mutant) the head is read but not removed
ShiftPeek(q) == q

\* jobQueue.shift(): the queue without its head
Shift(q) == Tail(q)

\* (mutant) the Job is put back at the head: jobQueue.unshift(job)
PushFront(q, u) == << u >> \o q

\* (mutant) the Job is not put back
PushLost(q, u) == q

\* jobQueue.push(job)
Push(q, u) == Append(q, u)

\* _populateJobQueue: one pending Job per url
NewJobs == [u \in Urls |-> [status |-> "pending", retryCount |-> 0,
                            data |-> NoData, error |-> FALSE]]

\* processJobResult: the result is merged
IsMergeable(job) == job.status = "completed" /\ job.data # NoData

\* (mutant) the last retry is not granted
MayRetryEarly(job) == job.retryCount < maxRetries - 1

\* (mutant) `<=` for `<`
MayRetryInclusive(job) == job.retryCount <= maxRetries

\* processJobResult: the failed Job is retried
MayRetry(job) == job.retryCount < maxRetries

\* (mutant) the count is raised twice
NextRetryCountTwice(n) == n + 2

\* job.retryCount++
NextRetryCount(n) == n + 1


(***************************************************************************)
(* Initial state: the options and what the site will serve are inputs      *)
(***************************************************************************)

InitState ==
    /\ startFormat = NoFormat
    /\ formats = << >>
    /\ partials = << >>
    /\ mergeOrder = << >>
    /\ orch = "init"
    /\ err = FALSE
    /\ browser = "none"
    /\ contextOptions = "empty"
    /\ mainSession = "none"
    /\ fmtIdx = 0
    /\ jobQueue = << >>
    /\ jobs = << >>
    /\ componentData = << >>
    /\ written = FALSE
    /\ componentCount = 0
    /\ running = {}
    /\ wpc = [w \in Workers |-> "idle"]
    /\ wstate = [w \in Workers |-> "stopped"]
    /\ context = [w \in Workers |-> "null"]
    /\ wsession = [w \in Workers |-> "none"]
    /\ page = [w \in Workers |-> FALSE]
    /\ held = [w \in Workers |-> NoJob]
    /\ plan = << >>
    /\ attempts = << >>
    /\ failedBy = << >>
    /\ sawEmpty = [w \in Workers |-> FALSE]
    /\ stopCalled = [w \in Workers |-> FALSE]
    /\ stopCalls = [w \in Workers |-> 0]
    /\ closeCalls = [w \in Workers |-> 0]
    /\ droppedJobs = {}
    /\ DedupIdle
    /\ StartIdle
    /\ SetFormatIdle
    /\ RoundTripIdle
    /\ AuthIdle

Init ==
    /\ unauthenticated \in BOOLEAN
    /\ optWorkers \in 1 .. (MaxLoad - 1)
    /\ numUrls \in 1 .. (MaxLoad - optWorkers)
    /\ numFormats \in 1 .. MaxFormats
    /\ InitState

(***************************************************************************)
(* Worker.start() and Worker.stop()                                        *)
(***************************************************************************)

\* A count of calls since the worker's start(), after a call of start(): an
\* already started worker returns at the state check and nothing is reset
SinceStart(w, n) == IF wstate[w] = "started" THEN n ELSE 0

\* The synchronous head of start(), run by the caller: the state check, then
\* browser.newContext() is awaited
StartedPc(w) == IF wstate[w] = "started" THEN "done" ELSE "newContext"

\* `await this.browser.newContext(...)` resolves; newPage() is awaited
NewContextResolved(w) ==
    /\ CanStep(w)
    /\ wpc[w] = "newContext"
    /\ browser = "open"
    /\ context' = [context EXCEPT ![w] = "open"]
    /\ wsession' = [wsession EXCEPT ![w] = contextOptions]
    /\ wpc' = [wpc EXCEPT ![w] = "newPage"]
    /\ running' = RunningAt(w, "newPage")
    /\ UNCHANGED << optVars, roundTripVars, setFormatVars, startVars, dedupVars, authVars, formatVars, mergeVars, sessionVars, orchVars, jobVars, componentData, wstate, page, held,
                    sawEmpty, stopCalled, stopCalls, closeCalls >>

\* `await this.browser.newContext(...)` rejects: start() rejects
NewContextRejected(w) ==
    /\ CanStep(w)
    /\ wpc[w] = "newContext"
    /\ wpc' = [wpc EXCEPT ![w] = "threw"]
    /\ running' = RunningAt(w, "threw")
    /\ UNCHANGED << optVars, roundTripVars, setFormatVars, startVars, dedupVars, authVars, formatVars, mergeVars, sessionVars, orchVars, jobVars, componentData, wstate, context,
                    page, held, sawEmpty, stopCalled, stopCalls, closeCalls, wsession >>

\* `await this.context.newPage()` resolves; the job loop is entered
NewPageResolved(w) ==
    /\ CanStep(w)
    /\ wpc[w] = "newPage"
    /\ browser = "open"
    /\ context[w] = "open"
    /\ page' = [page EXCEPT ![w] = TRUE]
    /\ wpc' = [wpc EXCEPT ![w] = "loop"]
    /\ running' = RunningAt(w, "loop")
    /\ UNCHANGED << optVars, roundTripVars, setFormatVars, startVars, dedupVars, authVars, formatVars, mergeVars, sessionVars, orchVars, jobVars, componentData, wstate, context,
                    held, sawEmpty, stopCalled, stopCalls, closeCalls, wsession >>

\* `await this.context.newPage()` rejects: start() rejects
NewPageRejected(w) ==
    /\ CanStep(w)
    /\ wpc[w] = "newPage"
    /\ wpc' = [wpc EXCEPT ![w] = "threw"]
    /\ running' = RunningAt(w, "threw")
    /\ UNCHANGED << optVars, roundTripVars, setFormatVars, startVars, dedupVars, authVars, formatVars, mergeVars, sessionVars, orchVars, jobVars, componentData, wstate, context,
                    page, held, sawEmpty, stopCalled, stopCalls, closeCalls, wsession >>

\* The loop head: `while (jobQueue.length > 0)`, shift(), status = 'processing',
\* then the extraction is awaited; on an empty queue start() returns
LoopHead(w) ==
    /\ CanStep(w)
    /\ wpc[w] = "loop"
    /\ IF Len(jobQueue) > 0
       THEN LET u == Head(jobQueue) IN
            /\ jobQueue' = Shift(jobQueue)
            /\ held' = [held EXCEPT ![w] = u]
            /\ jobs' = [jobs EXCEPT ![u].status = "processing"]
            /\ attempts' = [attempts EXCEPT ![u] = @ + 1]
            /\ wpc' = [wpc EXCEPT ![w] = "extract"]
            /\ running' = RunningAt(w, "extract")
            /\ UNCHANGED sawEmpty
       ELSE /\ wpc' = [wpc EXCEPT ![w] = "done"]
            /\ running' = RunningAt(w, "done")
            /\ sawEmpty' = [sawEmpty EXCEPT ![w] = TRUE]
            /\ UNCHANGED << jobQueue, held, jobs, attempts >>
    /\ UNCHANGED << optVars, roundTripVars, setFormatVars, startVars, dedupVars, authVars, formatVars, mergeVars, sessionVars, orchVars, componentData, wstate, context, page,
                    plan, failedBy, stopCalled, stopCalls, closeCalls, wsession, droppedJobs >>

\* The extraction of the held Job succeeds in this attempt: the page is
\* reachable and the planned failures of the url are used up
ExtractionSucceeds(u) ==
    /\ browser = "open"
    /\ attempts[u] > plan[u]

\* (mutant) no catch block: the extraction's error leaves the loop and start()
UncaughtPc == "threw"

\* Where the worker is after the catch block of the loop body: it falls
\* through to processJobResult(job)
CatchPc == "report"

\* The awaited extraction settles: data and 'completed', or the catch block's
\* error and 'failed'; processJobResult(job) is called next
ExtractSettled(w) ==
    /\ CanStep(w)
    /\ wpc[w] = "extract"
    /\ LET u == held[w] IN
       IF ExtractionSucceeds(u)
       THEN /\ jobs' = [jobs EXCEPT ![u].data = ExtractedData(u),
                                    ![u].status = "completed"]
            /\ failedBy' = [failedBy EXCEPT ![u] = 0]
            /\ wpc' = [wpc EXCEPT ![w] = "report"]
            /\ running' = RunningAt(w, "report")
       ELSE /\ jobs' = [jobs EXCEPT ![u].error = TRUE,
                                    ![u].status = "failed"]
            /\ failedBy' = [failedBy EXCEPT ![u] = w]
            /\ wpc' = [wpc EXCEPT ![w] = CatchPc]
            /\ running' = RunningAt(w, CatchPc)
    /\ UNCHANGED << optVars, roundTripVars, setFormatVars, startVars, dedupVars, authVars, formatVars, mergeVars, sessionVars, orchVars, componentData, wstate, context, page,
                    held, jobQueue, plan, attempts, sawEmpty, stopCalled, stopCalls, closeCalls, wsession,
                    droppedJobs >>

\* this.host.processJobResult(job), then back to the loop head
ProcessJobResult(w) ==
    /\ CanStep(w)
    /\ wpc[w] = "report"
    /\ LET u == held[w]
           job == jobs[u]
       IN
       IF IsMergeable(job)
       THEN /\ componentData' = MergeComponentData(componentData, job.data)
            /\ UNCHANGED << jobs, jobQueue, droppedJobs, failedBy >>
       ELSE IF job.status = "failed"
       THEN IF MayRetry(job)
            THEN /\ jobs' = [jobs EXCEPT ![u].retryCount = NextRetryCount(job.retryCount),
                                         ![u].status = "pending",
                                         ![u].error = FALSE]
                 /\ jobQueue' = Push(jobQueue, u)
                 /\ UNCHANGED << componentData, droppedJobs, failedBy >>
            ELSE /\ droppedJobs' = droppedJobs \cup { << fmtIdx, u >> }
                 /\ failedBy' = [failedBy EXCEPT ![u] = 0]
                 /\ UNCHANGED << componentData, jobs, jobQueue >>
       ELSE UNCHANGED << componentData, jobs, jobQueue, droppedJobs, failedBy >>
    /\ held' = [held EXCEPT ![w] = NoJob]
    /\ wpc' = [wpc EXCEPT ![w] = "loop"]
    /\ running' = RunningAt(w, "loop")
    /\ UNCHANGED << optVars, roundTripVars, setFormatVars, startVars, dedupVars, authVars, formatVars, mergeVars, sessionVars, orchVars, wstate, context, page, plan, attempts,
                    sawEmpty, stopCalled, stopCalls, closeCalls, wsession >>

\* The context.close() calls of one stop(): one when the worker has a page
ClosesIn(w) == IF page[w] THEN 1 ELSE 0

\* (mutant) stop() closes the context whether or not the worker has a page
StoppedPcUnguarded(w) == "stopClose"

\* The synchronous head of stop(), run by the caller: with a page,
\* context.close() is awaited; without, the state is set at once
StoppedPc(w) == IF page[w] THEN "stopClose" ELSE "stopped"

\* `await this.context?.close()` resolves: page = null, state = 'stopped'
StopCloseResolved(w) ==
    /\ CanStep(w)
    /\ wpc[w] = "stopClose"
    /\ context' = [context EXCEPT ![w] = "closed"]
    /\ page' = [page EXCEPT ![w] = FALSE]
    /\ wstate' = [wstate EXCEPT ![w] = "stopped"]
    /\ wpc' = [wpc EXCEPT ![w] = "stopped"]
    /\ running' = RunningAt(w, "stopped")
    /\ UNCHANGED << optVars, roundTripVars, setFormatVars, startVars, dedupVars, authVars, formatVars, mergeVars, sessionVars, orchVars, jobVars, componentData, held, sawEmpty,
                    stopCalled, stopCalls, closeCalls, wsession >>


(***************************************************************************)
(* TailwindPlusDownloader.start()                                          *)
(***************************************************************************)

\* What the run may find at options.session: no file, a file that is not
\* JSON, a storage state the site accepts, or one it rejects (in unauthenticated mode, where the
\* session plays no part in what follows, it is taken absent)
SessionFiles ==
    IF unauthenticated THEN { "absent" } ELSE { "absent", "corrupt", "valid", "invalid" }

\* The runs that find a storage state the site accepts
ValidSessionFile == IF unauthenticated THEN { "absent" } ELSE { "valid" }

\* (mutant) the parse error of a corrupt session file is not caught
LoadSessionRaw(f) == IF f = "absent" THEN "null" ELSE f

\* loadSession: null when the file does not exist or cannot be parsed, else
\* the parsed storage state
LoadSession(f) == IF f \in { "absent", "corrupt" } THEN "null" ELSE f

\* `session ? { storageState: session } : {}`
ContextOptionsFor(f) == IF LoadSession(f) = "null" THEN "empty" ELSE LoadSession(f)

\* ensureAuthenticated returns: the stored session validated, or a fresh login
\* was made on the main page
EnsureAuthenticated(f) == IF f = "valid" THEN "stored" ELSE "fresh"

\* `await this._initializeBrowser()` returns: the context options are built
\* from the stored session (one of `files`), the browser is launched and, in
\* authenticated mode, the main context is authenticated
InitializeBrowser(files) ==
    /\ OrchCanStep
    /\ orch = "init"
    /\ \E f \in files :
          /\ contextOptions' = ContextOptionsFor(f)
          /\ mainSession' = IF unauthenticated THEN "none" ELSE EnsureAuthenticated(f)
    /\ browser' = "open"
    /\ orch' = "discover"
    /\ UNCHANGED << optVars, roundTripVars, setFormatVars, startVars, dedupVars, authVars, formatVars, mergeVars, err, fmtIdx, written, componentCount, jobVars,
                    componentData, running, workerVars >>

\* ensureAuthenticated throws a DownloaderError (the stored session does not
\* validate, or its validation fails, and the login fails): start()'s catch
\* block calls process.exit(1)
InitializeBrowserFailed(files) ==
    /\ OrchCanStep
    /\ orch = "init"
    /\ ~unauthenticated
    /\ \E f \in files : contextOptions' = ContextOptionsFor(f)
    /\ browser' = "open"
    /\ err' = TRUE
    /\ orch' = "exited"
    /\ UNCHANGED << optVars, roundTripVars, setFormatVars, startVars, dedupVars, authVars, formatVars, mergeVars, mainSession, fmtIdx, written, componentCount, jobVars,
                    componentData, running, workerVars >>

\* discoverUrls' own `maxRetries = 3` parameter, which _discoverUrls leaves
\* at its default
discoverMaxRetries == 3

\* (mutant) the last retry is not made
DiscoveryExhaustedEarly(n) == n + 1 >= discoverMaxRetries

\* discoverUrls' catch block: `attempt++; if (attempt > maxRetries) throw ...`
DiscoveryExhausted(n) == n + 1 > discoverMaxRetries

\* `await this._discoverUrls()` returns: an attempt of discoverUrls' loop
\* succeeded and the list was returned at once
DiscoverUrls ==
    /\ OrchCanStep
    /\ orch = "discover"
    /\ orch' = "runDownload"
    /\ attempt' = 0
    /\ UNCHANGED << optVars, roundTripVars, setFormatVars, outputExists, overwrite, stdin, overwriteAnswer, dedupVars, authVars, formatVars,
                    mergeVars, sessionVars, err, browser, fmtIdx, written, componentCount,
                    jobVars, componentData, running, workerVars >>

\* An attempt of discoverUrls' loop throws and the budget is not exhausted:
\* a warning is logged and the loop goes round
DiscoverRetry ==
    /\ OrchCanStep
    /\ orch = "discover"
    /\ ~DiscoveryExhausted(attempt)
    /\ attempt' = attempt + 1
    /\ UNCHANGED << optVars, roundTripVars, setFormatVars, outputExists, overwrite, stdin, overwriteAnswer, dedupVars, authVars, formatVars,
                    mergeVars, sessionVars, orch, err, browser, fmtIdx, written,
                    componentCount, jobVars, componentData, running, workerVars >>

\* The last attempt of discoverUrls throws; it throws a DownloaderError and
\* start()'s catch block calls process.exit(1)
DiscoverUrlsFailed ==
    /\ OrchCanStep
    /\ orch = "discover"
    /\ DiscoveryExhausted(attempt)
    /\ attempt' = attempt + 1
    /\ err' = TRUE
    /\ orch' = "exited"
    /\ UNCHANGED << optVars, roundTripVars, setFormatVars, outputExists, overwrite, stdin, overwriteAnswer, dedupVars, authVars, formatVars,
                    mergeVars, sessionVars, browser, fmtIdx, written, componentCount,
                    jobVars, componentData, running, workerVars >>

\* (mutant) the pass starts from an empty accumulated result
PopulateAndStartFresh(p) ==
    /\ jobQueue' = [i \in 1 .. numUrls |-> i]
    /\ jobs' = NewJobs
    /\ plan' = p
    /\ attempts' = [u \in Urls |-> 0]
    /\ failedBy' = [u \in Urls |-> 0]
    /\ wpc' = [w \in Workers |-> StartedPc(w)]
    /\ wstate' = [w \in Workers |-> "started"]
    /\ sawEmpty' = [w \in Workers |-> FALSE]
    /\ stopCalled' = [w \in Workers |-> FALSE]
    /\ stopCalls' = [w \in Workers |-> SinceStart(w, stopCalls[w])]
    /\ closeCalls' = [w \in Workers |-> SinceStart(w, closeCalls[w])]
    /\ componentData' = << >>
    /\ UNCHANGED << context, wsession, page, held, droppedJobs, running >>

\* _populateJobQueue() followed by workers.map(w => w.start()): every worker
\* runs the head of start(); p is what the site will do to this pass's attempts
PopulateAndStart(p) ==
    /\ jobQueue' = [i \in 1 .. numUrls |-> i]
    /\ jobs' = NewJobs
    /\ plan' = p
    /\ attempts' = [u \in Urls |-> 0]
    /\ failedBy' = [u \in Urls |-> 0]
    /\ wpc' = [w \in Workers |-> StartedPc(w)]
    /\ wstate' = [w \in Workers |-> "started"]
    /\ sawEmpty' = [w \in Workers |-> FALSE]
    /\ stopCalled' = [w \in Workers |-> FALSE]
    /\ stopCalls' = [w \in Workers |-> SinceStart(w, stopCalls[w])]
    /\ closeCalls' = [w \in Workers |-> SinceStart(w, closeCalls[w])]
    /\ UNCHANGED << context, wsession, page, held, droppedJobs, running, componentData >>

\* _runDownload() up to the first await of _processFormats(): unauthenticated,
\* the single pass starts; authenticated, setFormat of the first format is awaited
RunDownload(plans) ==
    /\ OrchCanStep
    /\ orch = "runDownload"
    /\ IF unauthenticated
       THEN /\ \E p \in plans : PopulateAndStart(p)
            /\ orch' = "awaitStart"
            /\ UNCHANGED fmtIdx
       ELSE /\ fmtIdx' = 1
            /\ orch' = "setFormat"
            /\ UNCHANGED << jobVars, running, workerVars, componentData >>
    /\ UNCHANGED << optVars, roundTripVars, setFormatVars, startVars, dedupVars, authVars, formatVars, mergeVars, sessionVars, err, browser, written, componentCount >>

\* detectCurrentFormat throws a DownloaderError (no url, or the format
\* controls cannot be read): process.exit(1)
DetectFormatFailed ==
    /\ OrchCanStep
    /\ orch = "runDownload"
    /\ ~unauthenticated
    /\ err' = TRUE
    /\ orch' = "exited"
    /\ UNCHANGED << optVars, roundTripVars, setFormatVars, startVars, dedupVars, authVars, formatVars, mergeVars, sessionVars,
                    browser, fmtIdx, written, componentCount, jobVars, componentData,
                    running, workerVars >>

\* `await setFormat(...)` returns: the pass is populated and the pool started
SetFormatDone(plans) ==
    /\ OrchCanStep
    /\ orch = "setFormat"
    /\ \E p \in plans : PopulateAndStart(p)
    /\ orch' = "awaitStart"
    /\ UNCHANGED << optVars, roundTripVars, setFormatVars, startVars, dedupVars, authVars, formatVars, mergeVars, sessionVars, err, browser, fmtIdx, written, componentCount >>

\* setFormat throws a DownloaderError: process.exit(1)
SetFormatFailed ==
    /\ OrchCanStep
    /\ orch = "setFormat"
    /\ err' = TRUE
    /\ orch' = "exited"
    /\ UNCHANGED << optVars, roundTripVars, setFormatVars, startVars, dedupVars, authVars, formatVars, mergeVars, sessionVars, browser, fmtIdx, written, componentCount, jobVars,
                    componentData, running, workerVars >>

\* page.goto, the click that reveals the controls or the first read of the
\* controls is rejected in setFormat: not a DownloaderError, so start()
\* rethrows it after the finally block has called this.stop()
SetFormatRejected ==
    /\ OrchCanStep
    /\ orch = "setFormat"
    /\ err' = TRUE
    /\ orch' = "stopMainPage"
    /\ UNCHANGED << optVars, roundTripVars, setFormatVars, startVars, dedupVars, authVars, formatVars, mergeVars,
                    sessionVars, browser, fmtIdx, written, componentCount, jobVars,
                    componentData, running, workerVars >>

\* (mutant) Promise.race / Promise.any for Promise.all
AnyStarted == \E w \in Workers : wpc[w] = "done"

\* Promise.all(workers.map(w => w.start())) is fulfilled
AllStarted == \A w \in Workers : wpc[w] = "done"

\* `await Promise.all(start)` returns; workers.map(w => w.stop()) runs the head
\* of every stop()
PoolStartResolved ==
    /\ OrchCanStep
    /\ orch = "awaitStart"
    /\ AllStarted
    /\ stopCalled' = [w \in Workers |-> TRUE]
    /\ stopCalls' = [w \in Workers |-> stopCalls[w] + 1]
    /\ closeCalls' = [w \in Workers |-> closeCalls[w] + ClosesIn(w)]
    /\ wpc' = [w \in Workers |-> StoppedPc(w)]
    /\ wstate' = [w \in Workers |-> IF page[w] THEN wstate[w] ELSE "stopped"]
    /\ orch' = "awaitStop"
    /\ UNCHANGED << optVars, roundTripVars, setFormatVars, startVars, dedupVars, authVars, formatVars, mergeVars, sessionVars, err, browser, fmtIdx, written, componentCount,
                    jobVars, componentData, running, context, wsession, page, held,
                    sawEmpty >>

\* `await Promise.all(start)` throws the rejection of a worker's start(): not a
\* DownloaderError, so it is rethrown and the finally block calls this.stop()
PoolStartRejected ==
    /\ OrchCanStep
    /\ orch = "awaitStart"
    /\ \E w \in Workers : wpc[w] = "threw"
    /\ err' = TRUE
    /\ orch' = "stopMainPage"
    /\ UNCHANGED << optVars, roundTripVars, setFormatVars, startVars, dedupVars, authVars, formatVars, mergeVars, sessionVars, browser, fmtIdx, written, componentCount, jobVars,
                    componentData, running, workerVars >>

\* (mutant) Promise.race / Promise.any for Promise.all
AnyStopped == \E w \in Workers : wpc[w] = "stopped"

\* Promise.all(workers.map(w => w.stop())) is fulfilled
AllStopped == \A w \in Workers : wpc[w] = "stopped"

\* (mutant) the loop over the formats ends after its first pass
MorePassesNever == FALSE

\* `for (const format of this.formats)` has a next format; the unauthenticated
\* branch has no loop
MorePasses == ~unauthenticated /\ fmtIdx < numFormats

\* `await Promise.all(stop)` returns: the next format's setFormat is awaited,
\* or after the last pass _writeOutput() runs and the finally block calls stop()
PoolStopResolved ==
    /\ OrchCanStep
    /\ orch = "awaitStop"
    /\ AllStopped
    /\ IF MorePasses
       THEN /\ fmtIdx' = fmtIdx + 1
            /\ orch' = "setFormat"
            /\ UNCHANGED << written, componentCount >>
       ELSE /\ written' = TRUE
            /\ componentCount' = CountComponents(componentData)
            /\ orch' = "stopMainPage"
            /\ UNCHANGED fmtIdx
    /\ UNCHANGED << optVars, roundTripVars, setFormatVars, startVars, dedupVars, authVars, formatVars, mergeVars, sessionVars, err, browser, jobVars, componentData, running,
                    workerVars >>

\* stop(): `await this.mainPage.close()` returns; browser.close() is awaited
StopMainPage ==
    /\ OrchCanStep
    /\ orch = "stopMainPage"
    /\ orch' = "closeBrowser"
    /\ UNCHANGED << optVars, roundTripVars, setFormatVars, startVars, dedupVars, authVars, formatVars, mergeVars, sessionVars, err, browser, fmtIdx, written, componentCount,
                    jobVars, componentData, running, workerVars >>

\* stop(): `await this.browser.close()` returns, which closes every context of
\* the browser; start() returns, or rethrows to main(), which exits
CloseBrowser ==
    /\ OrchCanStep
    /\ orch = "closeBrowser"
    /\ browser' = "closed"
    /\ context' = [w \in Workers |-> IF context[w] = "open" THEN "closed"
                                     ELSE context[w]]
    /\ orch' = IF err THEN "exited" ELSE "done"
    /\ UNCHANGED << optVars, roundTripVars, setFormatVars, startVars, dedupVars, authVars, formatVars, mergeVars, sessionVars, err, fmtIdx, written, componentCount, jobVars,
                    componentData, running, wpc, wstate, page, held, sawEmpty,
                    stopCalled, stopCalls, closeCalls, wsession >>

(***************************************************************************)
(* Specifications                                                          *)
(***************************************************************************)

WorkerStep(w) ==
    \/ NewContextResolved(w)
    \/ NewPageResolved(w)
    \/ LoopHead(w)
    \/ ExtractSettled(w)
    \/ ProcessJobResult(w)
    \/ StopCloseResolved(w)

WorkerFault(w) ==
    \/ NewContextRejected(w)
    \/ NewPageRejected(w)

\* The orchestrator's steps once the browser is initialised
PassStep(plans) ==
    \/ DiscoverUrls
    \/ RunDownload(plans)
    \/ SetFormatDone(plans)
    \/ PoolStartResolved
    \/ PoolStopResolved
    \/ StopMainPage
    \/ CloseBrowser

OrchStep ==
    \/ InitializeBrowser(ValidSessionFile)
    \/ PassStep(Plans)

OrchFault ==
    \/ InitializeBrowserFailed(ValidSessionFile)
    \/ DiscoverRetry
    \/ DiscoverUrlsFailed
    \/ DetectFormatFailed
    \/ SetFormatFailed
    \/ SetFormatRejected
    \/ PoolStartRejected

Next ==
    \/ OrchStep
    \/ OrchFault
    \/ \E w \in Workers : WorkerStep(w)
    \/ \E w \in Workers : WorkerFault(w)

Spec == Init /\ [][Next]_vars


\* A run in which the browser and the site's control plane do not fail
HealthyNext ==
    \/ OrchStep
    \/ \E w \in Workers : WorkerStep(w)

\* The event loop resumes a coroutine whose await has settled: while some
\* step is possible, one is taken
Fairness == WF_vars(HealthyNext)

LiveSpec == Init /\ [][HealthyNext]_vars /\ Fairness


(***************************************************************************)
(* The retry scenario: a pass of 5 jobs and 2 workers in which at most one *)
(* url fails, any number of times; it includes the pass in which job #3    *)
(* fails exactly once                                                      *)
(***************************************************************************)

ScenarioInit ==
    /\ unauthenticated \in BOOLEAN
    /\ optWorkers = 2
    /\ numUrls = 5
    /\ numFormats = 1
    /\ InitState

ScenarioPlans ==
    { p \in Plans : Cardinality({ u \in Urls : p[u] > 0 }) <= 1 }

ScenarioNext ==
    \/ InitializeBrowser(ValidSessionFile)
    \/ DiscoverUrls
    \/ RunDownload(ScenarioPlans)
    \/ SetFormatDone(ScenarioPlans)
    \/ PoolStartResolved
    \/ PoolStopResolved
    \/ StopMainPage
    \/ CloseBrowser
    \/ \E w \in Workers : WorkerStep(w)

ScenarioSpec == ScenarioInit /\ [][ScenarioNext]_vars

(***************************************************************************)
(* The handshake paths: authenticated runs of one or two urls and workers  *)
(* that find any stored session, with at most one failing attempt per url  *)
(***************************************************************************)

SessionInit ==
    /\ unauthenticated = FALSE
    /\ optWorkers \in 1 .. 2
    /\ numUrls \in 1 .. 2
    /\ numFormats \in 1 .. 2
    /\ InitState

SessionPlans == { p \in Plans : \A u \in Urls : p[u] <= 1 }

SessionNext ==
    \/ InitializeBrowser(SessionFiles)
    \/ InitializeBrowserFailed(SessionFiles)
    \/ PassStep(SessionPlans)
    \/ \E w \in Workers : WorkerStep(w)

SessionSpec == SessionInit /\ [][SessionNext]_vars

(***************************************************************************)
(* The Worker contract: a client that holds the workers of one pass and    *)
(* calls start() and stop() on them in any order and any number of times,  *)
(* awaiting each call on a worker before the next call on that worker      *)
(***************************************************************************)

WorkerInit ==
    /\ unauthenticated \in BOOLEAN
    /\ optWorkers \in 1 .. (MaxLoad - 2)
    /\ numUrls \in 1 .. (MaxLoad - optWorkers)
    /\ numFormats = 1
    /\ startFormat = NoFormat
    /\ formats = << >>
    /\ partials = << >>
    /\ mergeOrder = << >>
    /\ orch = "client"
    /\ err = FALSE
    /\ browser = "open"
    /\ contextOptions = IF unauthenticated THEN "empty" ELSE "valid"
    /\ mainSession = IF unauthenticated THEN "none" ELSE "stored"
    /\ fmtIdx = IF unauthenticated THEN 0 ELSE 1
    /\ jobQueue = [i \in 1 .. numUrls |-> i]
    /\ jobs = NewJobs
    /\ componentData = << >>
    /\ written = FALSE
    /\ componentCount = 0
    /\ running = {}
    /\ wpc = [w \in Workers |-> "idle"]
    /\ wstate = [w \in Workers |-> "stopped"]
    /\ context = [w \in Workers |-> "null"]
    /\ wsession = [w \in Workers |-> "none"]
    /\ page = [w \in Workers |-> FALSE]
    /\ held = [w \in Workers |-> NoJob]
    /\ plan \in { p \in Plans : \A u \in Urls : p[u] <= 1 }
    /\ attempts = [u \in Urls |-> 0]
    /\ failedBy = [u \in Urls |-> 0]
    /\ sawEmpty = [w \in Workers |-> FALSE]
    /\ stopCalled = [w \in Workers |-> FALSE]
    /\ stopCalls = [w \in Workers |-> 0]
    /\ closeCalls = [w \in Workers |-> 0]
    /\ droppedJobs = {}
    /\ DedupIdle
    /\ StartIdle
    /\ SetFormatIdle
    /\ RoundTripIdle
    /\ AuthIdle

\* The client calls w.start(): the head of start() runs up to its first await
CallStart(w) ==
    /\ orch = "client"
    /\ running = {}
    /\ wpc[w] \in Parked
    /\ wpc' = [wpc EXCEPT ![w] = StartedPc(w)]
    /\ wstate' = [wstate EXCEPT ![w] = "started"]
    /\ sawEmpty' = [sawEmpty EXCEPT ![w] = FALSE]
    /\ stopCalled' = [stopCalled EXCEPT ![w] = FALSE]
    /\ stopCalls' = [stopCalls EXCEPT ![w] = SinceStart(w, @)]
    /\ closeCalls' = [closeCalls EXCEPT ![w] = SinceStart(w, @)]
    /\ UNCHANGED << optVars, roundTripVars, setFormatVars, startVars, dedupVars, authVars, formatVars, mergeVars, sessionVars, orchVars, jobVars, componentData, running, context,
                    wsession, page, held >>

\* The client calls w.stop(): the head of stop() runs up to its await, or to
\* its end when the worker has no page
CallStop(w) ==
    /\ orch = "client"
    /\ running = {}
    /\ wpc[w] \in Parked
    /\ stopCalls[w] < MaxStopCalls
    /\ stopCalled' = [stopCalled EXCEPT ![w] = TRUE]
    /\ stopCalls' = [stopCalls EXCEPT ![w] = @ + 1]
    /\ closeCalls' = [closeCalls EXCEPT ![w] = @ + ClosesIn(w)]
    /\ wpc' = [wpc EXCEPT ![w] = StoppedPc(w)]
    /\ wstate' = [wstate EXCEPT ![w] = IF page[w] THEN @ ELSE "stopped"]
    /\ UNCHANGED << optVars, roundTripVars, setFormatVars, startVars, dedupVars, authVars, formatVars, mergeVars, sessionVars, orchVars, jobVars, componentData, running, context,
                    wsession, page, held, sawEmpty >>

WorkerNext ==
    \/ \E w \in Workers : CallStart(w)
    \/ \E w \in Workers : CallStop(w)
    \/ \E w \in Workers : WorkerStep(w)
    \/ \E w \in Workers : WorkerFault(w)

WorkerSpec == WorkerInit /\ [][WorkerNext]_vars

(***************************************************************************)
(* The format schedule: _runDownload generates this.formats from the start *)
(* format and _processFormats walks it, one pass per format (the passes    *)
(* themselves are left out here)                                           *)
(***************************************************************************)

\* What detectCurrentFormat may return: any configured framework and version,
\* with a configured mode or, read from a page without mode controls, null
StartFormats ==
    { Format(Frameworks[i], Versions[j], m) :
        i \in DOMAIN Frameworks, j \in DOMAIN Versions,
        m \in Range(Modes) \cup { NullMode } }

FormatInit ==
    /\ unauthenticated \in BOOLEAN
    /\ optWorkers = 1
    /\ numUrls = 1
    /\ numFormats = 0
    /\ startFormat \in (IF unauthenticated THEN { UnauthenticatedStart } ELSE StartFormats)
    /\ formats = << >>
    /\ partials = << >>
    /\ mergeOrder = << >>
    /\ orch = "runDownload"
    /\ err = FALSE
    /\ browser = "open"
    /\ contextOptions = "empty"
    /\ mainSession = IF unauthenticated THEN "none" ELSE "fresh"
    /\ fmtIdx = 0
    /\ jobQueue = << >>
    /\ jobs = << >>
    /\ componentData = << >>
    /\ written = FALSE
    /\ componentCount = 0
    /\ running = {}
    /\ wpc = [w \in Workers |-> "idle"]
    /\ wstate = [w \in Workers |-> "stopped"]
    /\ context = [w \in Workers |-> "null"]
    /\ wsession = [w \in Workers |-> "none"]
    /\ page = [w \in Workers |-> FALSE]
    /\ held = [w \in Workers |-> NoJob]
    /\ plan = << >>
    /\ attempts = << >>
    /\ failedBy = << >>
    /\ sawEmpty = [w \in Workers |-> FALSE]
    /\ stopCalled = [w \in Workers |-> FALSE]
    /\ stopCalls = [w \in Workers |-> 0]
    /\ closeCalls = [w \in Workers |-> 0]
    /\ droppedJobs = {}
    /\ DedupIdle
    /\ StartIdle
    /\ SetFormatIdle
    /\ RoundTripIdle
    /\ AuthIdle

\* _runDownload: this.formats = generateFormats(startFormat, config), and
\* _processFormats enters its loop at the first format
GenerateSchedule ==
    /\ orch = "runDownload"
    /\ formats' = GenerateFormats(startFormat)
    /\ numFormats' = Len(formats')
    /\ fmtIdx' = 1
    /\ orch' = "setFormat"
    /\ UNCHANGED << unauthenticated, optWorkers, numUrls, startFormat, mergeVars, sessionVars,
                    setFormatVars, startVars, roundTripVars,
                    dedupVars, authVars,
                    err, browser, written, componentCount, jobVars, componentData,
                    running, workerVars >>

\* _processFormats: `for (const format of this.formats)` moves to the next format
NextFormat ==
    /\ orch = "setFormat"
    /\ fmtIdx < numFormats
    /\ fmtIdx' = fmtIdx + 1
    /\ UNCHANGED << optVars, roundTripVars, setFormatVars, startVars, dedupVars, authVars, formatVars, mergeVars, sessionVars, orch, err, browser, written,
                    componentCount, jobVars, componentData, running, workerVars >>

FormatNext ==
    \/ GenerateSchedule
    \/ NextFormat

FormatSpec == FormatInit /\ [][FormatNext]_vars

(***************************************************************************)
(* The merge: partial results are merged into an empty accumulated result  *)
(* in any order, as processJobResult does with the data of Completed Jobs, *)
(* and the accumulated result is counted, as _writeOutput does             *)
(***************************************************************************)

\* The places of the component entries of the partial results: two components
\* of one page, and a component of a page of another category
MergePaths ==
    { << "ui", "forms", "inputs", "a" >>, << "ui", "forms", "inputs", "b" >>,
      << "ui", "nav", "tabs", "a" >> }

\* The snippets an extraction returns for one component
SnippetLists == { << "X" >>, << "Y" >> }

\* The partial results: trees of 1 to MaxLeaves component entries
PartialResults ==
    { TreeOf(leaves) :
        leaves \in UNION { [S -> SnippetLists] :
                             S \in { T \in SUBSET MergePaths :
                                        T # {} /\ Cardinality(T) <= MaxLeaves } } }

MergeInit ==
    /\ unauthenticated = FALSE
    /\ optWorkers = 1
    /\ numUrls = 1
    /\ numFormats = 1
    /\ startFormat = NoFormat
    /\ formats = << >>
    /\ partials \in [1 .. 3 -> PartialResults]
    /\ mergeOrder = << >>
    /\ orch = "awaitStart"
    /\ err = FALSE
    /\ browser = "open"
    /\ contextOptions = "valid"
    /\ mainSession = "stored"
    /\ fmtIdx = 1
    /\ jobQueue = << >>
    /\ jobs = << >>
    /\ componentData = << >>
    /\ written = FALSE
    /\ componentCount = 0
    /\ running = {}
    /\ wpc = [w \in Workers |-> "idle"]
    /\ wstate = [w \in Workers |-> "stopped"]
    /\ context = [w \in Workers |-> "null"]
    /\ wsession = [w \in Workers |-> "none"]
    /\ page = [w \in Workers |-> FALSE]
    /\ held = [w \in Workers |-> NoJob]
    /\ plan = << >>
    /\ attempts = << >>
    /\ failedBy = << >>
    /\ sawEmpty = [w \in Workers |-> FALSE]
    /\ stopCalled = [w \in Workers |-> FALSE]
    /\ stopCalls = [w \in Workers |-> 0]
    /\ closeCalls = [w \in Workers |-> 0]
    /\ droppedJobs = {}
    /\ DedupIdle
    /\ StartIdle
    /\ SetFormatIdle
    /\ RoundTripIdle
    /\ AuthIdle

\* processJobResult of a Completed Job whose data is partials[i]:
\* mergeComponentData(this.componentData, job.data); a count taken before is
\* out of date
MergePartial(i) ==
    /\ i \notin Range(mergeOrder)
    /\ componentData' = MergeComponentData(componentData, partials[i])
    /\ mergeOrder' = Append(mergeOrder, i)
    /\ written' = FALSE
    /\ UNCHANGED << optVars, roundTripVars, setFormatVars, startVars, dedupVars, authVars, formatVars, partials, sessionVars, orch, err, browser,
                    fmtIdx, componentCount, jobVars, running, workerVars >>

\* _writeOutput: this.componentCount = countComponents(...) of the
\* accumulated result
CountMerged ==
    /\ ~written
    /\ componentCount' = CountComponents(componentData)
    /\ written' = TRUE
    /\ UNCHANGED << optVars, roundTripVars, setFormatVars, startVars, dedupVars, authVars, formatVars, mergeVars, sessionVars, orch, err, browser,
                    fmtIdx, componentData, jobVars, running, workerVars >>

MergeNext ==
    \/ \E i \in DOMAIN partials : MergePartial(i)
    \/ CountMerged

MergeSpec == MergeInit /\ [][MergeNext]_vars

(***************************************************************************)
(* The deduplication: _writeOutput deduplicates an accumulated result and  *)
(* counts it; the deduplication is then applied again to its own result    *)
(***************************************************************************)

\* The places of the component entries: a component of an eCommerce page,
\* whose snippets have no mode, and a component of another page
EcommercePath == << "ecommerce", "checkout", "carts", "a" >>
OtherPath == << "ui", "forms", "inputs", "a" >>
DedupPaths == { EcommercePath, OtherPath }

\* The snippets a component entry at `path` can hold: waitForAuthenticatedData
\* expects mode null of each snippet of an eCommerce page and the mode of the
\* pass of any other
SnippetsOf(path) ==
    [name : { "react", "vue" }, version : { 4 },
     mode : IF path = EcommercePath THEN { NullMode } ELSE { "light", "dark" },
     supportsDarkMode : BOOLEAN]

\* The snippet sequences of 1 to n snippets of the entry at `path`
SnippetSeqs(path, n) == UNION { [1 .. k -> SnippetsOf(path)] : k \in 1 .. n }

\* The component entries of the accumulated results: an entry at one of the
\* places or at both, with no more than MaxSnippets snippets together
DedupLeaves ==
    UNION { [{ q } -> SnippetSeqs(q, MaxSnippets)] : q \in DedupPaths }
    \cup UNION { { (EcommercePath :> a) @@ (OtherPath :> b) :
                      b \in SnippetSeqs(OtherPath, MaxSnippets - Len(a)) } :
                  a \in SnippetSeqs(EcommercePath, MaxSnippets - 1) }

DedupTrees == { TreeOf(leaves) : leaves \in DedupLeaves }

DedupInit ==
    /\ unauthenticated = FALSE
    /\ optWorkers = 1
    /\ numUrls = 1
    /\ numFormats = 1
    /\ startFormat = NoFormat
    /\ formats = << >>
    /\ partials = << >>
    /\ mergeOrder = << >>
    /\ orch = "awaitStart"
    /\ err = FALSE
    /\ browser = "open"
    /\ contextOptions = "valid"
    /\ mainSession = "stored"
    /\ fmtIdx = 1
    /\ jobQueue = << >>
    /\ jobs = << >>
    /\ componentData \in DedupTrees
    /\ written = FALSE
    /\ componentCount = 0
    /\ running = {}
    /\ wpc = [w \in Workers |-> "idle"]
    /\ wstate = [w \in Workers |-> "stopped"]
    /\ context = [w \in Workers |-> "null"]
    /\ wsession = [w \in Workers |-> "none"]
    /\ page = [w \in Workers |-> FALSE]
    /\ held = [w \in Workers |-> NoJob]
    /\ plan = << >>
    /\ attempts = << >>
    /\ failedBy = << >>
    /\ sawEmpty = [w \in Workers |-> FALSE]
    /\ stopCalled = [w \in Workers |-> FALSE]
    /\ stopCalls = [w \in Workers |-> 0]
    /\ closeCalls = [w \in Workers |-> 0]
    /\ droppedJobs = {}
    /\ DedupIdle
    /\ StartIdle
    /\ SetFormatIdle
    /\ RoundTripIdle
    /\ AuthIdle

\* _writeOutput: data = deduplicateEcommerceSnippets(this.componentData);
\* this.componentCount = countComponents(data); data goes to the writer
WriteDeduplicated ==
    /\ ~written
    /\ output' = DeduplicateEcommerceSnippets(componentData)
    /\ componentCount' = CountComponents(output')
    /\ written' = TRUE
    /\ dedupCalls' = 1
    /\ UNCHANGED << optVars, roundTripVars, setFormatVars, startVars, authVars, formatVars, mergeVars, sessionVars, orch, err, browser,
                    fmtIdx, componentData, jobVars, running, workerVars >>

\* deduplicateEcommerceSnippets applied to a deduplicated tree
DeduplicateAgain ==
    /\ written
    /\ dedupCalls < MaxDedupCalls
    /\ output' = DeduplicateEcommerceSnippets(output)
    /\ dedupCalls' = dedupCalls + 1
    /\ UNCHANGED << optVars, roundTripVars, setFormatVars, startVars, authVars, formatVars, mergeVars, sessionVars, orch, err, browser,
                    fmtIdx, written, componentCount, componentData, jobVars, running,
                    workerVars >>

DedupNext ==
    \/ WriteDeduplicated
    \/ DeduplicateAgain

DedupSpec == DedupInit /\ [][DedupNext]_vars

(***************************************************************************)
(* The handshake: ensureAuthenticated, with validateSession, retryGoto,    *)
(* resolveCredentials, login, resilientLogin and saveSession.  A step is   *)
(* the code between two awaits whose outcome the environment decides.      *)
(***************************************************************************)

\* An entry of the history
Event(kind, n) == [ev |-> kind, n |-> n]

\* The entries of one kind in the history
EventsOf(kind) == { i \in DOMAIN hlog : hlog[i].ev = kind }

\* The login attempts so far
LoginAttempts == Cardinality(EventsOf("attempt"))

\* What settles first in the race of an iteration: the page left /login, the
\* bad-credentials text became visible, a required input fired `invalid`, no
\* form was found, page.evaluate was rejected because the execution context
\* was destroyed, page.evaluate was rejected with another error, or the
\* first timeout of a detector
RaceEvents ==
    { "navigated", "bad_credentials_visible", "invalid_event", "no_form",
      "context_destroyed", "evaluate_error", "outcome_timeout" }

\* How long after the submission a detector other than the timeout settles
Latencies == { 0, outcomeTimeout \div 2 }

\* (mutant) the rejection of page.evaluate is rethrown whatever its message
CatchEvaluateRethrows(event) == "throw"

\* validationFailedPromise's catch: a rejection whose message includes
\* 'Execution context was destroyed' becomes a value, any other is rethrown
CatchEvaluate(event) ==
    IF event = "context_destroyed" THEN "context_destroyed_by_navigation"
    ELSE "throw"

\* `winner`: the value Promise.race and its catch give for what settled first
\* ("throw": the race's catch rethrows)
Winner(event) ==
    CASE event = "navigated" -> "success"
      [] event = "bad_credentials_visible" -> "bad_credentials"
      [] event = "invalid_event" -> "validation_failed"
      [] event = "no_form" -> "form_not_found"
      [] event \in { "context_destroyed", "evaluate_error" } -> CatchEvaluate(event)
      [] event = "outcome_timeout" -> "timeout"

\* (mutant) a validation failure is returned as bad credentials
LoopReturnValidationCounts(w) ==
    CASE w = "form_not_found" -> "throw"
      [] w \in { "bad_credentials", "validation_failed" } -> "bad_credentials"
      [] w \in { "success", "context_destroyed_by_navigation" } -> "success"
      [] OTHER -> "retry"

\* What an iteration of resilientLogin does with `winner`: throw, return a
\* result, or wait and re-fill
LoopReturn(w) ==
    CASE w = "form_not_found" -> "throw"
      [] w = "bad_credentials" -> "bad_credentials"
      [] w \in { "success", "context_destroyed_by_navigation" } -> "success"
      [] OTHER -> "retry"

\* (mutant) the loop of resilientLogin has no time budget
WithinBudgetAlways(ms) == TRUE

\* Date.now() - startTime < loginTimeout
WithinBudget(ms) == ms < loginTimeout

\* The elapsed time as the model records it: beyond the budget and the
\* longest iteration every value is the same to the loop
Clock(ms) == Min(ms, loginTimeout + outcomeTimeout + retryWait)

\* (mutant) validateSession rethrows what it catches
ValidateSessionRethrows == "failed"

\* validateSession's catch returns false: ensureAuthenticated goes on to
\* resolveCredentials
ValidateSessionCaught == "resolve"

\* (mutant) the prompt is shown whether or not stdin is a terminal
MayPromptAlways == TRUE

\* login: `process.stdin.isTTY`
MayPrompt == interactive

\* What the user can answer to 'Try again with new credentials? [Y/n]: '
Answers == { "", "y", "Y", "n", "N", "no", "NO", "No" }

\* The entry of the history for an answer to that prompt
AnswerEvent(answer) == Event("answer:" \o answer, 0)

\* answer.toLowerCase()
ToLowerCase(answer) ==
    CASE answer \in { "Y" } -> "y"
      [] answer \in { "N" } -> "n"
      [] answer \in { "NO", "No" } -> "no"
      [] OTHER -> answer

\* (mutant) only 'n' aborts
IsAbortOnlyN(answer) == ToLowerCase(answer) = "n"

\* answer === 'n' || answer === 'no', of the lower-cased answer
IsAbort(answer) == ToLowerCase(answer) \in { "n", "no" }

\* (mutant) the rejected credentials are used again
SameCredentials(c) == c

\* credentials = await promptCredentials(): the next entered credentials
PromptCredentials(c) == c + 1

\* (mutant) login returns on a timeout instead of throwing
TimeoutReturnsPc == "save"

\* login: `throw new DownloaderError('Login failed: timed out ...')`
TimeoutPc == "failed"

\* (mutant) a failure to save the session is rethrown
SaveSessionRethrows == "failed"

\* saveSession: `catch (error) { ... logger.warn(...) }`, the call returns
SaveSessionCaught == "done"

HandshakeInit ==
    /\ unauthenticated = FALSE
    /\ optWorkers = 1
    /\ numUrls = 1
    /\ numFormats = 1
    /\ startFormat = NoFormat
    /\ formats = << >>
    /\ partials = << >>
    /\ mergeOrder = << >>
    /\ orch = "init"
    /\ err = FALSE
    /\ browser = "open"
    /\ sessionFile \in SessionFiles
    /\ contextOptions = ContextOptionsFor(sessionFile)
    /\ mainSession = "none"
    /\ fmtIdx = 0
    /\ jobQueue = << >>
    /\ jobs = << >>
    /\ componentData = << >>
    /\ written = FALSE
    /\ componentCount = 0
    /\ running = {}
    /\ wpc = [w \in Workers |-> "idle"]
    /\ wstate = [w \in Workers |-> "stopped"]
    /\ context = [w \in Workers |-> "null"]
    /\ wsession = [w \in Workers |-> "none"]
    /\ page = [w \in Workers |-> FALSE]
    /\ held = [w \in Workers |-> NoJob]
    /\ plan = << >>
    /\ attempts = << >>
    /\ failedBy = << >>
    /\ sawEmpty = [w \in Workers |-> FALSE]
    /\ stopCalled = [w \in Workers |-> FALSE]
    /\ stopCalls = [w \in Workers |-> 0]
    /\ closeCalls = [w \in Workers |-> 0]
    /\ droppedJobs = {}
    /\ DedupIdle
    /\ StartIdle
    /\ SetFormatIdle
    /\ RoundTripIdle
    /\ hpc = "validateGoto"
    /\ interactive \in BOOLEAN
    /\ credFile \in BOOLEAN
    /\ gotoAttempt = 1
    /\ credentials = 0
    /\ hlog = << >>
    /\ elapsed = 0
    /\ settled = "none"
    /\ winner = "none"
    /\ result = "none"
    /\ herror = "none"

\* What no step of the handshake changes
HandshakeFrame ==
    UNCHANGED << optVars, roundTripVars, setFormatVars, startVars, dedupVars, formatVars, mergeVars, sessionVars, orch, err,
                 browser, fmtIdx, written, componentCount, componentData, jobVars,
                 running, workerVars, interactive, credFile >>

\* resilientLogin is entered: startTime = Date.now()
BeginAttempt ==
    /\ hpc' = "loopHead"
    /\ hlog' = Append(hlog, Event("attempt", credentials))
    /\ elapsed' = 0
    /\ settled' = "none"
    /\ winner' = "none"
    /\ gotoAttempt' = 0

\* retryGoto throws (n: the attempts made): inside validateSession the error
\* is caught there, inside login it leaves ensureAuthenticated
GotoThrows(n) ==
    /\ gotoAttempt' = 0
    /\ IF hpc = "validateGoto"
       THEN /\ hpc' = ValidateSessionCaught
            /\ hlog' = Append(hlog, Event("invalid", n))
            /\ herror' = IF hpc' = "failed" THEN "validation" ELSE herror
       ELSE /\ hpc' = "failed"
            /\ herror' = "navigation"
            /\ UNCHANGED hlog
    /\ UNCHANGED << sessionFile, credentials, elapsed, settled, winner, result >>

\* retryGoto: page.goto resolves; validateSession goes on to the visibility
\* checks, login calls resilientLogin
GotoResolved ==
    /\ hpc \in { "validateGoto", "loginGoto" }
    /\ IF hpc = "validateGoto"
       THEN /\ hpc' = "validateCheck"
            /\ gotoAttempt' = 0
            /\ UNCHANGED << hlog, elapsed, settled, winner >>
       ELSE BeginAttempt
    /\ UNCHANGED << sessionFile, credentials, result, herror >>
    /\ HandshakeFrame

\* retryGoto: page.goto rejects with a TimeoutError; it is tried again unless
\* this was attempt maxRetries, which throws a DownloaderError
GotoTimeout ==
    /\ hpc \in { "validateGoto", "loginGoto" }
    /\ IF gotoAttempt < maxRetries
       THEN /\ gotoAttempt' = gotoAttempt + 1
            /\ UNCHANGED << hpc, hlog, herror, sessionFile, credentials, elapsed,
                            settled, winner, result >>
       ELSE GotoThrows(maxRetries)
    /\ HandshakeFrame

\* retryGoto: page.goto rejects with another error, which is thrown at once
GotoError ==
    /\ hpc \in { "validateGoto", "loginGoto" }
    /\ GotoThrows(1)
    /\ HandshakeFrame

\* validateSession: the two isVisible() checks; only a context created from a
\* storage state the site accepts is signed in; a rejection is caught
ValidateCheck ==
    /\ hpc = "validateCheck"
    /\ \E outcome \in { "authenticated", "anonymous", "error" } :
          /\ outcome = "authenticated" => contextOptions = "valid"
          /\ hpc' = CASE outcome = "authenticated" -> "done"
                      [] outcome = "anonymous" -> "resolve"
                      [] outcome = "error" -> ValidateSessionCaught
          /\ hlog' = Append(hlog, Event(IF outcome = "authenticated" THEN "valid"
                                        ELSE "invalid", 0))
          /\ herror' = IF hpc' = "failed" THEN "validation" ELSE herror
    /\ UNCHANGED << sessionFile, gotoAttempt, credentials, elapsed,
                    settled, winner, result >>
    /\ HandshakeFrame

\* resolveCredentials: from the credentials file, else from the prompt; then
\* login() starts with retryGoto to the login page
ResolveCredentials ==
    /\ hpc = "resolve"
    /\ credentials' = 1
    /\ hlog' = IF credFile THEN Append(hlog, Event("credentials_file", 1))
               ELSE Append(hlog, Event("credentials_prompt", 1))
    /\ hpc' = "loginGoto"
    /\ gotoAttempt' = 1
    /\ UNCHANGED << sessionFile, elapsed, settled, winner, result, herror >>
    /\ HandshakeFrame

\* resilientLogin, the loop condition: within the budget the fields are
\* filled, the detectors set up and the form submitted; beyond it the result
\* is 'timeout'
LoginLoopHead ==
    /\ hpc = "loopHead"
    /\ IF WithinBudget(elapsed)
       THEN /\ hpc' = "race"
            /\ UNCHANGED << result, elapsed >>
       ELSE /\ result' = "timeout"
            /\ hpc' = "result"
            /\ elapsed' = 0
    /\ settled' = "none"
    /\ winner' = "none"
    /\ UNCHANGED << sessionFile, gotoAttempt, credentials, hlog, herror >>
    /\ HandshakeFrame

\* resilientLogin: fill() or click() rejects; the error leaves login
SubmitRejected ==
    /\ hpc = "loopHead"
    /\ WithinBudget(elapsed)
    /\ hpc' = "failed"
    /\ herror' = "page_error"
    /\ elapsed' = 0
    /\ UNCHANGED << sessionFile, gotoAttempt, credentials, hlog, settled, winner, result >>
    /\ HandshakeFrame

\* resilientLogin: Promise.race settles and the winner is acted on
RaceSettled ==
    /\ hpc = "race"
    /\ \E event \in RaceEvents :
       \E latency \in (IF event = "outcome_timeout" THEN { outcomeTimeout } ELSE Latencies) :
          /\ settled' = event
          /\ IF Winner(event) = "throw"
             THEN /\ hpc' = "failed"
                  /\ herror' = "page_error"
                  /\ elapsed' = 0
                  /\ UNCHANGED << winner, result >>
             ELSE /\ winner' = Winner(event)
                  /\ CASE LoopReturn(winner') = "throw" ->
                            /\ hpc' = "failed"
                            /\ herror' = "form_not_found"
                            /\ elapsed' = 0
                            /\ UNCHANGED result
                       [] LoopReturn(winner') = "retry" ->
                            /\ hpc' = "wait"
                            /\ elapsed' = Clock(elapsed + latency)
                            /\ UNCHANGED << result, herror >>
                       [] OTHER ->
                            /\ result' = LoopReturn(winner')
                            /\ hpc' = "result"
                            /\ elapsed' = 0
                            /\ UNCHANGED herror
    /\ UNCHANGED << sessionFile, gotoAttempt, credentials, hlog >>
    /\ HandshakeFrame

\* resilientLogin: page.waitForTimeout(100) has passed
WaitElapsed ==
    /\ hpc = "wait"
    /\ elapsed' = Clock(elapsed + retryWait)
    /\ hpc' = "loopHead"
    /\ UNCHANGED << sessionFile, gotoAttempt, credentials, hlog, settled, winner,
                    result, herror >>
    /\ HandshakeFrame

\* login: what it does with the result of resilientLogin
HandleResult ==
    /\ hpc = "result"
    /\ hlog' = Append(hlog, Event(result, credentials))
    /\ CASE result = "success" ->
              /\ hpc' = "save"
              /\ UNCHANGED herror
         [] result = "bad_credentials" ->
              IF MayPrompt
              THEN /\ hpc' = "askRetry"
                   /\ UNCHANGED herror
              ELSE /\ hpc' = "failed"
                   /\ herror' = "bad_credentials"
         [] result = "timeout" ->
              /\ hpc' = TimeoutPc
              /\ herror' = IF hpc' = "failed" THEN "timeout" ELSE herror
    /\ UNCHANGED << sessionFile, gotoAttempt, credentials, elapsed,
                    settled, winner, result >>
    /\ HandshakeFrame

\* login: the user answers 'Try again with new credentials? [Y/n]: ' (after
\* MaxLoginAttempts attempts with an abort)
AnswerRetry ==
    /\ hpc = "askRetry"
    /\ \E answer \in Answers :
          /\ LoginAttempts >= MaxLoginAttempts => ToLowerCase(answer) \in { "n", "no" }
          /\ hlog' = Append(hlog, AnswerEvent(answer))
          /\ IF IsAbort(answer)
             THEN /\ hpc' = "failed"
                  /\ herror' = "aborted"
             ELSE /\ hpc' = "promptNew"
                  /\ UNCHANGED herror
    /\ UNCHANGED << sessionFile, gotoAttempt, credentials, elapsed,
                    settled, winner, result >>
    /\ HandshakeFrame

\* login: credentials = await promptCredentials(); continue
PromptNewCredentials ==
    /\ hpc = "promptNew"
    /\ credentials' = PromptCredentials(credentials)
    /\ hlog' = Append(hlog, Event("credentials_prompt", credentials'))
    /\ hpc' = "loginGoto"
    /\ gotoAttempt' = 1
    /\ UNCHANGED << sessionFile, elapsed, settled, winner, result, herror >>
    /\ HandshakeFrame

\* saveSession: the storage state is read and written to the session file;
\* a failure of either is caught and logged
SaveSession ==
    /\ hpc = "save"
    /\ \E ok \in BOOLEAN :
          /\ sessionFile' = IF ok THEN "fresh" ELSE sessionFile
          /\ hlog' = Append(hlog, Event(IF ok THEN "saved" ELSE "save_failed", credentials))
          /\ hpc' = IF ok THEN "done" ELSE SaveSessionCaught
    /\ UNCHANGED << gotoAttempt, credentials, elapsed, settled, winner, result, herror >>
    /\ HandshakeFrame

\* The steps of a running resilientLogin
AttemptStep ==
    \/ LoginLoopHead
    \/ RaceSettled
    \/ WaitElapsed

HandshakeNext ==
    \/ GotoResolved
    \/ GotoTimeout
    \/ GotoError
    \/ ValidateCheck
    \/ ResolveCredentials
    \/ AttemptStep
    \/ SubmitRejected
    \/ HandleResult
    \/ AnswerRetry
    \/ PromptNewCredentials
    \/ SaveSession

\* Every await of resilientLogin settles: the detectors and
\* page.waitForTimeout have timeouts
HandshakeSpec ==
    HandshakeInit /\ [][HandshakeNext]_vars /\ WF_vars(AttemptStep)

(***************************************************************************)
(* start() from its first line: the check of the output path and the       *)
(* overwrite prompt, then a run of one worker and one or two urls          *)
(***************************************************************************)

\* What `read` may return for the prompt: a line of the terminal or of the
\* pipe, or the empty answer at the end of the input
OverwriteAnswers ==
    IF stdin = "eof" THEN { << >> }
    ELSE { << >>, << "y" >>, << " ", "Y", "e", "s" >>, << "n" >>, << "n", "y" >>,
           << " " >> }

\* answer.trim(), the leading part
RECURSIVE TrimStart(_)
TrimStart(chars) ==
    IF chars # << >> /\ Head(chars) = " " THEN TrimStart(Tail(chars)) ELSE chars

\* answer.trim().toLowerCase(), as far as startsWith looks: trailing blanks
\* play no part in the test of the first character
ToLowerCaseChar(c) == IF c = "Y" THEN "y" ELSE IF c = "N" THEN "n" ELSE c

\* (mutant) only a refusal aborts
ConfirmsUnlessNo(chars) ==
    TrimStart(chars) = << >> \/ ToLowerCaseChar(Head(TrimStart(chars))) # "n"

\* answer.trim().toLowerCase().startsWith('y')
Confirms(chars) ==
    TrimStart(chars) # << >> /\ ToLowerCaseChar(Head(TrimStart(chars))) = "y"

StartInit ==
    /\ unauthenticated \in BOOLEAN
    /\ optWorkers = 1
    /\ numUrls \in 1 .. 2
    /\ numFormats = 1
    /\ startFormat = NoFormat
    /\ formats = << >>
    /\ partials = << >>
    /\ mergeOrder = << >>
    /\ orch = "start"
    /\ err = FALSE
    /\ browser = "none"
    /\ contextOptions = "empty"
    /\ mainSession = "none"
    /\ fmtIdx = 0
    /\ jobQueue = << >>
    /\ jobs = << >>
    /\ componentData = << >>
    /\ written = FALSE
    /\ componentCount = 0
    /\ running = {}
    /\ wpc = [w \in Workers |-> "idle"]
    /\ wstate = [w \in Workers |-> "stopped"]
    /\ context = [w \in Workers |-> "null"]
    /\ wsession = [w \in Workers |-> "none"]
    /\ page = [w \in Workers |-> FALSE]
    /\ held = [w \in Workers |-> NoJob]
    /\ plan = << >>
    /\ attempts = << >>
    /\ failedBy = << >>
    /\ sawEmpty = [w \in Workers |-> FALSE]
    /\ stopCalled = [w \in Workers |-> FALSE]
    /\ stopCalls = [w \in Workers |-> 0]
    /\ closeCalls = [w \in Workers |-> 0]
    /\ droppedJobs = {}
    /\ DedupIdle
    /\ AuthIdle
    /\ SetFormatIdle
    /\ RoundTripIdle
    /\ outputExists \in BOOLEAN
    /\ overwrite \in BOOLEAN
    /\ stdin \in { "tty", "pipe", "eof" }
    /\ overwriteAnswer = << >>
    /\ attempt = 0

\* What the output check and the prompt leave alone
StartFrame ==
    UNCHANGED << optVars, roundTripVars, setFormatVars, dedupVars, authVars, formatVars, mergeVars,
                 sessionVars, browser, fmtIdx, written, componentCount, componentData,
                 jobVars, running, workerVars, outputExists, overwrite, stdin, attempt >>

\* `if (fs.existsSync(this.options.output) && !this.options.overwrite)`: the
\* prompt is awaited, or _initializeBrowser is
CheckOutput ==
    /\ orch = "start"
    /\ orch' = IF outputExists /\ ~overwrite THEN "prompt" ELSE "init"
    /\ UNCHANGED << err, overwriteAnswer >>
    /\ StartFrame

\* The prompt returns with an answer that starts with y: the run goes on
OverwriteConfirmed ==
    /\ orch = "prompt"
    /\ \E chars \in OverwriteAnswers :
          /\ Confirms(chars)
          /\ overwriteAnswer' = chars
    /\ orch' = "init"
    /\ UNCHANGED err
    /\ StartFrame

\* The prompt returns with another answer: the DownloaderError is thrown
\* outside start()'s try block, start() rejects and main()'s catch calls
\* process.exit(1)
OverwriteRefused ==
    /\ orch = "prompt"
    /\ \E chars \in OverwriteAnswers :
          /\ ~Confirms(chars)
          /\ overwriteAnswer' = chars
    /\ err' = TRUE
    /\ orch' = "exited"
    /\ StartFrame

StartNext ==
    \/ CheckOutput
    \/ OverwriteConfirmed
    \/ OverwriteRefused
    \/ InitializeBrowser(ValidSessionFile)
    \/ PassStep(SessionPlans)
    \/ \E w \in Workers : WorkerStep(w)

StartSpec == StartInit /\ [][StartNext]_vars

(***************************************************************************)
(* setFormat, called on the main page for any target format while the      *)
(* account holds any format                                                *)
(***************************************************************************)

\* The formats the controls of the page can show and setFormat can be given:
\* the mode is null where no mode input is checked
SiteFormats ==
    { Format(Frameworks[i], Versions[j], m) :
        i \in DOMAIN Frameworks, j \in DOMAIN Versions,
        m \in Range(Modes) \cup { NullMode } }

\* Format._stringValue: "react-v4-light", or "html-v3" for a null mode
StringValue(format) ==
    format.framework \o "-v" \o ToString(format.version)
        \o (IF format.mode = NullMode THEN "" ELSE "-" \o format.mode)

\* Format.equals
Equals(a, b) == StringValue(a) = StringValue(b)

\* The controls in the order setFormat takes them
Controls == << "framework", "version", "mode" >>

\* What follows the step of a control
AfterControl(c) ==
    CASE c = "framework" -> "version"
      [] c = "version" -> "mode"
      [] c = "mode" -> "verify"

\* The three `if`s of setFormat: `currentFormat.framework !== targetFw`,
\* `currentFormat.version !== targetV`,
\* `targetMode !== null && currentFormat.mode !== targetMode`
NeedsChange(c, cur, target) ==
    /\ cur[c] # target[c]
    /\ c = "mode" => target.mode # NullMode

\* `interim`: the current format with the one control at its target
Interim(c, cur, target) == [cur EXCEPT ![c] = target[c]]

\* page.goto, codeButton.click or an inputValue of the first
\* readCurrentFormat rejects outside the try block: the error leaves
\* setFormat as it is
Raw == "raw"

SetFormatInit ==
    /\ unauthenticated = FALSE
    /\ optWorkers = 1
    /\ numUrls = 1
    /\ numFormats = 1
    /\ startFormat = NoFormat
    /\ formats = << >>
    /\ partials = << >>
    /\ mergeOrder = << >>
    /\ orch = "setFormat"
    /\ err = FALSE
    /\ browser = "open"
    /\ contextOptions = "empty"
    /\ mainSession = "fresh"
    /\ fmtIdx = 1
    /\ jobQueue = << >>
    /\ jobs = << >>
    /\ componentData = << >>
    /\ written = FALSE
    /\ componentCount = 0
    /\ running = {}
    /\ wpc = [w \in Workers |-> "idle"]
    /\ wstate = [w \in Workers |-> "stopped"]
    /\ context = [w \in Workers |-> "null"]
    /\ wsession = [w \in Workers |-> "none"]
    /\ page = [w \in Workers |-> FALSE]
    /\ held = [w \in Workers |-> NoJob]
    /\ plan = << >>
    /\ attempts = << >>
    /\ failedBy = << >>
    /\ sawEmpty = [w \in Workers |-> FALSE]
    /\ stopCalled = [w \in Workers |-> FALSE]
    /\ stopCalls = [w \in Workers |-> 0]
    /\ closeCalls = [w \in Workers |-> 0]
    /\ droppedJobs = {}
    /\ DedupIdle
    /\ AuthIdle
    /\ StartIdle
    /\ RoundTripIdle
    /\ sfpc = "goto"
    /\ site \in SiteFormats
    /\ targetFormat \in SiteFormats
    /\ currentFormat = NoFormat
    /\ awaited = "none"
    /\ inflight = 0
    /\ changes = << >>
    /\ sferror = "none"

\* What no step of setFormat changes
SetFormatFrame ==
    UNCHANGED << optVars, roundTripVars, startVars, dedupVars, authVars, formatVars, mergeVars, sessionVars,
                 orch, err, browser, fmtIdx, written, componentCount, componentData,
                 jobVars, running, workerVars, targetFormat >>

\* setFormat throws
Throw(error) ==
    /\ sfpc' = "threw"
    /\ sferror' = error

\* `await page.goto(urls[0])` and `await app.getAttribute('data-page')`: the
\* page is loaded and has the attribute, or the attribute is missing, or the
\* navigation is rejected
Navigate ==
    /\ sfpc = "goto"
    /\ \/ sfpc' = "click" /\ UNCHANGED sferror
       \/ Throw("DownloaderError")
       \/ Throw(Raw)
    /\ UNCHANGED << site, currentFormat, awaited, inflight, changes >>
    /\ SetFormatFrame

\* `await codeButton.click()` reveals the version controls, or is rejected
RevealControls ==
    /\ sfpc = "click"
    /\ \/ sfpc' = "read" /\ UNCHANGED sferror
       \/ Throw(Raw)
    /\ UNCHANGED << site, currentFormat, awaited, inflight, changes >>
    /\ SetFormatFrame

\* `let currentFormat = await readCurrentFormat(page, config)` and the test
\* of `currentFormat.equals(targetFormat)`; readCurrentFormat may throw its
\* DownloaderError or be rejected by an inputValue
ReadCurrentFormat ==
    /\ sfpc = "read"
    /\ \/ /\ currentFormat' = site
          /\ sfpc' = IF Equals(site, targetFormat) THEN "returned" ELSE "framework"
          /\ UNCHANGED sferror
       \/ Throw("DownloaderError") /\ UNCHANGED currentFormat
       \/ Throw(Raw) /\ UNCHANGED currentFormat
    /\ UNCHANGED << site, awaited, inflight, changes >>
    /\ SetFormatFrame

\* The `if` of a control: when the control differs the response listener is
\* set up and the control changed, which sends the request, and the response
\* is awaited; else the next control is looked at
ChangeControl(c) ==
    /\ sfpc = c
    /\ awaited = "none"
    /\ IF NeedsChange(c, currentFormat, targetFormat)
       THEN /\ awaited' = c
            /\ inflight' = inflight + 1
            /\ changes' = Append(changes, c)
            /\ UNCHANGED sfpc
       ELSE /\ sfpc' = AfterControl(c)
            /\ UNCHANGED << awaited, inflight, changes >>
    /\ UNCHANGED << site, currentFormat, sferror >>
    /\ SetFormatFrame

\* selectOption or the click on the mode input is rejected: no request is
\* sent, the catch block wraps the error
ChangeControlRejected(c) ==
    /\ sfpc = c
    /\ awaited = "none"
    /\ NeedsChange(c, currentFormat, targetFormat)
    /\ Throw("DownloaderError")
    /\ UNCHANGED << site, currentFormat, awaited, inflight, changes >>
    /\ SetFormatFrame

\* `await responsePromise` returns: a response with the data in the interim
\* format has arrived, the account holds that format
ResponseConfirmed(c) ==
    /\ sfpc = c
    /\ awaited = c
    /\ site' = Interim(c, site, targetFormat)
    /\ currentFormat' = IF c = "mode" THEN currentFormat
                        ELSE Interim(c, currentFormat, targetFormat)
    /\ inflight' = inflight - 1
    /\ awaited' = "none"
    /\ sfpc' = AfterControl(c)
    /\ UNCHANGED << changes, sferror >>
    /\ SetFormatFrame

\* `await responsePromise` is rejected by its timeout: the catch block wraps
\* the error
ResponseTimeout(c) ==
    /\ sfpc = c
    /\ awaited = c
    /\ awaited' = "none"
    /\ Throw("DownloaderError")
    /\ UNCHANGED << site, currentFormat, inflight, changes >>
    /\ SetFormatFrame

\* `const verified = await readCurrentFormat(page, config)` and the test of
\* `verified.equals(targetFormat)`; a failure of the read is wrapped by the
\* catch block
VerifyFormat ==
    /\ sfpc = "verify"
    /\ \/ /\ Equals(site, targetFormat)
          /\ sfpc' = "returned"
          /\ UNCHANGED sferror
       \/ /\ ~Equals(site, targetFormat)
          /\ Throw("DownloaderError")
       \/ Throw("DownloaderError")
    /\ UNCHANGED << site, currentFormat, awaited, inflight, changes >>
    /\ SetFormatFrame

SetFormatNext ==
    \/ Navigate
    \/ RevealControls
    \/ ReadCurrentFormat
    \/ \E i \in DOMAIN Controls : ChangeControl(Controls[i])
    \/ \E i \in DOMAIN Controls : ChangeControlRejected(Controls[i])
    \/ \E i \in DOMAIN Controls : ResponseConfirmed(Controls[i])
    \/ \E i \in DOMAIN Controls : ResponseTimeout(Controls[i])
    \/ VerifyFormat

\* A response awaited with a timeout settles
SetFormatSpec ==
    SetFormatInit /\ [][SetFormatNext]_vars /\ WF_vars(SetFormatNext)

(***************************************************************************)
(* Consecutive authenticated runs with the same options, up to the end of  *)
(* _initializeBrowser: the session file is loaded, validated and, after a  *)
(* login, saved                                                            *)
(***************************************************************************)

RoundTripInit ==
    /\ unauthenticated = FALSE
    /\ optWorkers = 1
    /\ numUrls = 1
    /\ numFormats = 1
    /\ startFormat = NoFormat
    /\ formats = << >>
    /\ partials = << >>
    /\ mergeOrder = << >>
    /\ orch = "init"
    /\ err = FALSE
    /\ browser = "none"
    /\ contextOptions = "empty"
    /\ mainSession = "none"
    /\ fmtIdx = 0
    /\ jobQueue = << >>
    /\ jobs = << >>
    /\ componentData = << >>
    /\ written = FALSE
    /\ componentCount = 0
    /\ running = {}
    /\ wpc = [w \in Workers |-> "idle"]
    /\ wstate = [w \in Workers |-> "stopped"]
    /\ context = [w \in Workers |-> "null"]
    /\ wsession = [w \in Workers |-> "none"]
    /\ page = [w \in Workers |-> FALSE]
    /\ held = [w \in Workers |-> NoJob]
    /\ plan = << >>
    /\ attempts = << >>
    /\ failedBy = << >>
    /\ sawEmpty = [w \in Workers |-> FALSE]
    /\ stopCalled = [w \in Workers |-> FALSE]
    /\ stopCalls = [w \in Workers |-> 0]
    /\ closeCalls = [w \in Workers |-> 0]
    /\ droppedJobs = {}
    /\ DedupIdle
    /\ AuthIdle
    /\ StartIdle
    /\ SetFormatIdle
    /\ optSession \in SessionPaths
    /\ sessionStore \in [SessionPaths -> SessionFiles]
    /\ runNo = 1
    /\ rtpc = "load"
    /\ savedTo = "none"

\* What no step of these runs changes
RoundTripFrame ==
    UNCHANGED << optVars, setFormatVars, startVars, dedupVars, authVars, formatVars,
                 mergeVars, orch, err, browser, fmtIdx, written, componentCount,
                 componentData, jobVars, running, workerVars, optSession >>

\* `loadSession(this.options.session, ...)` and the context options built
\* from what it returns
LoadStoredSession ==
    /\ rtpc = "load"
    /\ contextOptions' = ContextOptionsFor(sessionStore[optSession])
    /\ rtpc' = "validate"
    /\ UNCHANGED << mainSession, sessionStore, runNo, savedTo >>
    /\ RoundTripFrame

\* validateSession: a stored session, as found or saved by a login, may be
\* accepted by the site; without one, or when it is rejected, the login follows
ValidateStoredSession ==
    /\ rtpc = "validate"
    /\ \/ /\ contextOptions \in { "valid", "fresh" }
          /\ mainSession' = "stored"
          /\ rtpc' = "end"
       \/ /\ contextOptions # "valid"
          /\ rtpc' = "login"
          /\ UNCHANGED mainSession
    /\ UNCHANGED << contextOptions, sessionStore, runNo, savedTo >>
    /\ RoundTripFrame

\* login returns, and saveSession is awaited, or login throws and the run ends
LoginOutcome ==
    /\ rtpc = "login"
    /\ \/ mainSession' = "fresh" /\ rtpc' = "save"
       \/ rtpc' = "end" /\ UNCHANGED mainSession
    /\ UNCHANGED << contextOptions, sessionStore, runNo, savedTo >>
    /\ RoundTripFrame

\* `saveSession(context, config.session, logger)`: the storage state is
\* written to config.session, or the failure to write it is logged
SaveToConfigSession ==
    /\ rtpc = "save"
    /\ \/ /\ sessionStore' = [sessionStore EXCEPT ![ConfigSession] = "fresh"]
          /\ savedTo' = ConfigSession
       \/ UNCHANGED << sessionStore, savedTo >>
    /\ rtpc' = "end"
    /\ UNCHANGED << contextOptions, mainSession, runNo >>
    /\ RoundTripFrame

\* The run has ended; the next run with the same options starts with a new
\* process: nothing but the files is carried over
FollowingRun ==
    /\ rtpc = "end"
    /\ runNo < MaxRuns
    /\ runNo' = runNo + 1
    /\ rtpc' = "load"
    /\ contextOptions' = "empty"
    /\ mainSession' = "none"
    /\ UNCHANGED << sessionStore, savedTo >>
    /\ RoundTripFrame

RoundTripNext ==
    \/ LoadStoredSession
    \/ ValidateStoredSession
    \/ LoginOutcome
    \/ SaveToConfigSession
    \/ FollowingRun

RoundTripSpec == RoundTripInit /\ [][RoundTripNext]_vars

(***************************************************************************)
(* Properties                                                              *)
(***************************************************************************)

\* C1: a Job that was dequeued and is not yet reported to processJobResult is
\* held by at most one worker, and is not in the queue while it is held
C1_SingleHolder ==
    \A v \in Workers :
        held[v] # NoJob =>
            /\ \A w \in Workers : w # v => held[w] # held[v]
            /\ held[v] \notin Range(jobQueue)

\* Two workers hold a Job each at the same time
C1_Witness ==
    \E v, w \in Workers : v # w /\ held[v] # NoJob /\ held[w] # NoJob

\* C2: at most one worker is inside processJobResult, and it is the worker
\* that holds the thread
C2_SerializedIngestion ==
    \A v \in Workers :
        wpc[v] = "report" =>
            /\ running = {v}
            /\ \A w \in Workers : wpc[w] = "report" => w = v

\* A worker is inside processJobResult while another's extraction is in flight
C2_Witness ==
    \E v, w \in Workers : wpc[v] = "report" /\ wpc[w] = "extract"

\* C3: the accumulated result changes only in the processJobResult step of a
\* worker whose Job is Completed, and then by the merge of that Job's data
C3_OnlyIngestionMutates ==
    [][componentData' # componentData =>
        \E w \in Workers :
            /\ wpc[w] = "report"
            /\ wpc'[w] = "loop"
            /\ jobs[held[w]].status = "completed"
            /\ componentData' = MergeComponentData(componentData, jobs[held[w]].data)
      ]_vars

\* A second pass is running on a non-empty accumulated result, and a failed
\* Job has been ingested in it
C3_Witness ==
    /\ fmtIdx > 1
    /\ componentData # << >>
    /\ \E u \in DOMAIN jobs : jobs[u].retryCount > 0

\* C4: a failed extraction is only marked and reported (no attempt is added,
\* the queue is untouched); processJobResult of a failed Job below maxRetries
\* clears the error, adds one to retryCount, sets Pending and appends the Job
\* to the tail of the queue; a dequeue takes the head of the queue
C4_FailThenRequeue ==
    [][\A w \in Workers :
        /\ (wpc[w] = "extract" /\ wpc'[w] = "report"
               /\ jobs'[held[w]].status = "failed")
            => /\ jobs'[held[w]].error
               /\ held'[w] = held[w]
               /\ attempts' = attempts
               /\ jobQueue' = jobQueue
        /\ (wpc[w] = "report" /\ wpc'[w] # "report"
               /\ jobs[held[w]].status = "failed"
               /\ jobs[held[w]].retryCount < maxRetries)
            => /\ jobs'[held[w]] = [status |-> "pending",
                                    retryCount |-> jobs[held[w]].retryCount + 1,
                                    data |-> NoData, error |-> FALSE]
               /\ jobQueue' = Append(jobQueue, held[w])
               /\ held'[w] = NoJob
        /\ (wpc[w] = "loop" /\ wpc'[w] = "extract")
            => /\ held'[w] = Head(jobQueue)
               /\ jobQueue' = Tail(jobQueue)
      ]_vars

\* A re-queued Job is being attempted by a worker other than the one whose
\* attempt failed
C4_Witness ==
    \E w \in Workers :
        /\ wpc[w] = "extract"
        /\ jobs[held[w]].retryCount >= 1
        /\ failedBy[held[w]] # w

\* A step that is not the population of a new pass
SamePass == ~(orch # "awaitStart" /\ orch' = "awaitStart")

\* C5: every Job's retryCount is between 0 and maxRetries, and within a pass
\* it never decreases
C5_RetryCountBounded ==
    [][/\ \A u \in DOMAIN jobs' : jobs'[u].retryCount \in 0 .. maxRetries
       /\ SamePass =>
            \A u \in DOMAIN jobs : jobs'[u].retryCount >= jobs[u].retryCount
      ]_vars

\* A Job has used all its retries
C5_Witness ==
    \E u \in DOMAIN jobs : jobs[u].retryCount = maxRetries


\* The snippet of url u extracted in pass f is in the accumulated result
MergedInPass(u, f) ==
    IF unauthenticated THEN SnippetsAt(componentData, u) # << >>
    ELSE f \in Range(SnippetsAt(componentData, u))

\* Every Job of the pass that was planned to fail fewer than maxRetries times
\* is Completed, with its result in the accumulated result
C6_AllRetriedCompleted ==
    \A u \in Urls :
        plan[u] < maxRetries =>
            /\ jobs[u].status = "completed"
            /\ MergedInPass(u, fmtIdx)

\* C6: under fair scheduling, every pass whose pool was started runs to the
\* end of the pool's start(), and there every Job whose extraction fails fewer
\* than maxRetries times is Completed and merged
C6_EventuallyCompleted ==
    /\ [](orch = "awaitStop" => C6_AllRetriedCompleted)
    /\ (orch = "awaitStart") ~> (orch = "awaitStop")

\* A Job that failed and was re-queued is Completed and merged
C6_Witness ==
    \E u \in DOMAIN jobs :
        /\ plan[u] >= 1
        /\ plan[u] < maxRetries
        /\ jobs[u].retryCount = plan[u]
        /\ jobs[u].status = "completed"
        /\ MergedInPass(u, fmtIdx)

\* The pool of the current pass has run to completion
PassDone == orch \in { "awaitStop", "stopMainPage", "closeBrowser", "done" }

\* The pass in which job #3 fails exactly once and every other attempt succeeds
IsRetryScenario == plan = [u \in Urls |-> IF u = 3 THEN 1 ELSE 0]

\* C7: with 5 jobs, 2 workers and maxRetries = 3, when job #3 fails exactly
\* once the pass ends with all 5 jobs Completed, job #3 at retryCount 1 and the
\* others at 0; and every pass ends with each Job's retryCount equal to the
\* number of its failed attempts that were re-queued (all but its last attempt)
C7_RetryScenario ==
    PassDone =>
        /\ IsRetryScenario =>
              /\ Cardinality({ u \in Urls : jobs[u].status = "completed" }) = 5
              /\ \A u \in Urls : jobs[u].retryCount = IF u = 3 THEN 1 ELSE 0
        /\ \A u \in Urls : jobs[u].retryCount = attempts[u] - 1

\* The scenario's pass has ended, job #3 having been attempted twice
C7_Witness ==
    /\ orch = "done"
    /\ IsRetryScenario
    /\ attempts[3] = 2


\* The passes of a run that has run them all
AllPasses == IF unauthenticated THEN { 0 } ELSE 1 .. numFormats

\* The urls with a pass in which their Job was not dropped
ContributingUrls ==
    { u \in Urls : \E f \in AllPasses : << f, u >> \notin droppedJobs }

\* A Job dropped in the current pass stays Failed, outside the queue, held by
\* no worker and unmerged, after maxRetries + 1 attempts; the output, once
\* written, counts the urls that contributed and holds no dropped Job's result
C8_DroppedStaysOut ==
    /\ \A u \in DOMAIN jobs :
          << fmtIdx, u >> \in droppedJobs =>
              /\ jobs[u].status = "failed"
              /\ u \notin Range(jobQueue)
              /\ \A w \in Workers : held[w] # u
              /\ attempts[u] = maxRetries + 1
              /\ ~MergedInPass(u, fmtIdx)
    /\ written =>
          /\ componentCount = Cardinality(ContributingUrls)
          /\ \A d \in droppedJobs : ~MergedInPass(d[2], d[1])

\* C8: a Job that fails at retryCount = maxRetries is dropped for good (never
\* re-queued, never merged, attempted maxRetries + 1 times); the run still
\* completes and writes the output, whose count lacks the dropped Job
C8_DropAndComplete ==
    /\ []C8_DroppedStaysOut
    /\ (droppedJobs # {}) ~> (orch = "done" /\ written)

\* A run with a dropped Job has completed and written its output
C8_Witness ==
    /\ orch = "done"
    /\ written
    /\ droppedJobs # {}
    /\ componentCount < numUrls

\* C9: when the pool's start() completes, every worker has left its loop on an
\* empty queue, the queue is empty, no worker holds a Job and no Job is Pending
\* or Processing
C9_StartDrainsQueue ==
    ((orch = "awaitStart" /\ running = {} /\ AllStarted) \/ orch = "awaitStop") =>
        /\ \A w \in Workers : sawEmpty[w]
        /\ jobQueue = << >>
        /\ \A w \in Workers : held[w] = NoJob
        /\ \A u \in Urls : jobs[u].status \notin { "pending", "processing" }

\* A failed Job is back in the queue after another worker has found the queue
\* empty and returned from start()
C9_Witness ==
    /\ orch = "awaitStart"
    /\ jobQueue # << >>
    /\ \E w \in Workers : wpc[w] = "done"

\* C10 (as claimed): once the run has ended, stop() was invoked on every
\* worker that was started and no worker's context is left open
C10_StopAlwaysExecutes ==
    orch \in { "done", "exited" } =>
        \A w \in Workers :
            /\ wpc[w] # "idle" => stopCalled[w]
            /\ context[w] # "open"

\* C11: stop() is idempotent.  A stop() called on a worker that was never
\* started, or again on a worker already stopped, completes at once and leaves
\* the worker as it was: state 'stopped', no page, the context untouched.  A
\* completed stop() always leaves state 'stopped' and no page, and the context
\* is closed at most once between two start() calls
C11_StopIdempotent ==
    /\ [](\A w \in Workers : closeCalls[w] <= 1)
    /\ [](\A w \in Workers : wpc[w] = "stopped" => wstate[w] = "stopped" /\ ~page[w])
    /\ [][\A w \in Workers :
            (stopCalls'[w] = stopCalls[w] + 1 /\ wpc[w] \in { "idle", "stopped" })
            => /\ wpc'[w] = "stopped"
               /\ wstate'[w] = "stopped" /\ wstate[w] = "stopped"
               /\ ~page'[w] /\ ~page[w]
               /\ context'[w] = context[w]
               /\ closeCalls'[w] = closeCalls[w]
        ]_vars

\* stop() has completed twice on a worker whose context it closed, and has
\* completed on a worker that was never started
C11_Witness ==
    \E v, w \in Workers :
        /\ wpc[v] = "stopped" /\ stopCalls[v] >= 2 /\ closeCalls[v] = 1
        /\ wpc[w] = "stopped" /\ stopCalls[w] >= 1 /\ context[w] = "null"

\* C12: while a format change (setFormat) is in progress the run is
\* authenticated, no worker coroutine exists (every worker is not yet started
\* or has completed its stop()), no worker holds a Job, the queue is empty and
\* no Job is Processing; a format change begins only from that situation, and
\* a worker dequeues a Job only when no format change is in progress
C12_FormatChangeIsolated ==
    /\ [](orch = "setFormat" =>
            /\ ~unauthenticated
            /\ fmtIdx \in 1 .. numFormats
            /\ running = {}
            /\ \A w \in Workers : wpc[w] \in { "idle", "stopped" } /\ held[w] = NoJob
            /\ jobQueue = << >>
            /\ \A u \in DOMAIN jobs : jobs[u].status # "processing")
    /\ [][/\ (fmtIdx' # fmtIdx =>
                /\ orch' = "setFormat"
                /\ \A w \in Workers : wpc[w] \in { "idle", "stopped" })
           /\ ((\E w \in Workers : held[w] = NoJob /\ held'[w] # NoJob) =>
                /\ orch # "setFormat"
                /\ orch' # "setFormat"
                /\ (unauthenticated \/ fmtIdx \in 1 .. numFormats))
        ]_vars

\* The format change of a second pass is in progress, after a pass in which
\* two workers ran and results were merged
C12_Witness ==
    /\ orch = "setFormat"
    /\ fmtIdx = 2
    /\ componentData # << >>
    /\ \E v, w \in Workers : v # w /\ context[v] = "closed" /\ context[w] = "closed"

\* C13 (as claimed): in authenticated mode the context of every worker was
\* created from the authenticated session the handshake established: the
\* stored session when it validated, the session of the fresh login otherwise
C13_WorkersShareHandshakeSession ==
    ~unauthenticated =>
        \A w \in Workers :
            context[w] # "null" =>
                /\ mainSession # "none"
                /\ mainSession = "stored" => wsession[w] = "valid"
                /\ mainSession = "fresh" => wsession[w] = "fresh"

\* C14: an extraction error does not leave the worker's loop.  The step in
\* which an extraction fails marks the Job Failed and takes the worker to
\* processJobResult; that call takes the worker back to the loop head; both
\* steps leave every other worker as it was.  Each failed attempt is reported
\* once: a Job's retryCount is the number of its attempts that are over and
\* were re-queued.  A worker whose start() rejected never entered the loop
C14_ErrorsStayInLoop ==
    /\ [](\A u \in DOMAIN jobs :
            jobs[u].retryCount =
                attempts[u] - (IF jobs[u].status = "pending" THEN 0 ELSE 1))
    /\ [](\A w \in Workers : wpc[w] = "threw" => ~page[w] /\ held[w] = NoJob)
    /\ [][\A w \in Workers :
            /\ (wpc[w] = "extract" /\ wpc'[w] # "extract") =>
                  /\ wpc'[w] = "report"
                  /\ held'[w] = held[w]
                  /\ jobs'[held[w]].status \in { "completed", "failed" }
                  /\ \A v \in Workers \ { w } :
                        wpc'[v] = wpc[v] /\ held'[v] = held[v] /\ page'[v] = page[v]
            /\ (wpc[w] = "report" /\ wpc'[w] # "report") =>
                  /\ wpc'[w] = "loop"
                  /\ running' = { w }
                  /\ \A v \in Workers \ { w } :
                        wpc'[v] = wpc[v] /\ held'[v] = held[v] /\ page'[v] = page[v]
        ]_vars

\* A worker whose attempt of a Job failed is extracting another Job, while
\* another worker's extraction is in flight
C14_Witness ==
    \E v, w \in Workers : \E u \in DOMAIN jobs :
        /\ v # w
        /\ failedBy[u] = w
        /\ wpc[w] = "extract" /\ held[w] # u
        /\ wpc[v] = "extract"

\* The configured combinations: frameworks x versions x modes
AllFormats ==
    { Format(f, v, m) : f \in Range(Frameworks), v \in Range(Versions), m \in Range(Modes) }

\* The schedule has been generated from a start format with a configured mode
GeneratedFromConfigured == formats # << >> /\ startFormat.mode # NullMode

\* C15: for a start format with configured framework, version and mode, the
\* generated sequence begins with the start format and holds every configured
\* combination exactly once
C15_StartFirstFullProduct ==
    GeneratedFromConfigured =>
        /\ formats[1] = startFormat
        /\ Range(formats) = AllFormats
        /\ Len(formats) = Cardinality(AllFormats)
        /\ \A i, j \in DOMAIN formats : formats[i] = formats[j] => i = j

\* The walk has reached the last format of a schedule generated from a start
\* format that is not the head of the configured values
C15_Witness ==
    /\ GeneratedFromConfigured
    /\ startFormat = Format("html", 4, "dark")
    /\ fmtIdx = Len(formats)

\* The settings in which two formats differ
Differing(a, b) ==
    { d \in { "framework", "version", "mode" } : a[d] # b[d] }

C17_NullModeSixCombinations ==
    (formats # << >> /\ startFormat.mode = NullMode) =>
        /\ Len(formats) = Len(Frameworks) * Len(Versions)
        /\ formats[1] = startFormat
        /\ \A i, j \in DOMAIN formats :
              (formats[i].framework = formats[j].framework
                 /\ formats[i].version = formats[j].version) => i = j

\* The partial result merged in this step
MergedNow == partials[mergeOrder'[Len(mergeOrder')]]

\* C18: a merge concatenates at a leaf and never replaces.  After merging a
\* partial result, every leaf of it holds the accumulator's former snippets
\* followed by the partial result's (its own alone when the leaf, or a
\* container above it, was absent), every other leaf is as before, and the
\* leaves are those of both; merging [X] and then [Y] for one leaf gives [X, Y]
C18_MergeConcatenates ==
    /\ [][mergeOrder' # mergeOrder =>
            /\ LeafPaths(componentData') = LeafPaths(componentData) \cup LeafPaths(MergedNow)
            /\ \A p \in LeafPaths(MergedNow) :
                  SnippetsAtPath(componentData', p) =
                      SnippetsAtPath(componentData, p) \o SnippetsAtPath(MergedNow, p)
            /\ \A p \in LeafPaths(componentData) \ LeafPaths(MergedNow) :
                  SnippetsAtPath(componentData', p) = SnippetsAtPath(componentData, p)
        ]_vars
    /\ [](\A p \in MergePaths :
            (/\ Len(mergeOrder) = 2
             /\ SnippetsAtPath(partials[mergeOrder[1]], p) = << "X" >>
             /\ SnippetsAtPath(partials[mergeOrder[2]], p) = << "Y" >>)
            => SnippetsAtPath(componentData, p) = << "X", "Y" >>)

\* Partial results with [X] and then [Y] for one leaf have been merged, the
\* second one also bringing a leaf under a category the accumulator lacked
C18_Witness ==
    /\ Len(mergeOrder) = 2
    /\ SnippetsAtPath(componentData, << "ui", "forms", "inputs", "a" >>) = << "X", "Y" >>
    /\ << "ui", "nav", "tabs", "a" >> \in LeafPaths(partials[mergeOrder[2]])
    /\ "nav" \notin DOMAIN partials[mergeOrder[1]].ui

\* The number of occurrences of snippet x in a snippet sequence
Occurrences(snippets, x) == Cardinality({ i \in DOMAIN snippets : snippets[i] = x })

\* C19: whatever the order in which three partial results are merged into an
\* empty accumulator, the result has the leaves of the three together and at
\* every leaf each snippet as many times as the three hold it there
C19_MergeOrderIndependent ==
    Len(mergeOrder) = 3 =>
        /\ LeafPaths(componentData) = UNION { LeafPaths(partials[i]) : i \in 1 .. 3 }
        /\ \A p \in MergePaths : \A x \in { "X", "Y" } :
              Occurrences(SnippetsAtPath(componentData, p), x) =
                  Occurrences(SnippetsAtPath(partials[1], p), x)
                + Occurrences(SnippetsAtPath(partials[2], p), x)
                + Occurrences(SnippetsAtPath(partials[3], p), x)

\* Three partial results that hold different snippets for a common leaf have
\* been merged in an order other than that in which they were given
C19_Witness ==
    /\ mergeOrder = << 3, 1, 2 >>
    /\ \E p \in MergePaths :
          /\ SnippetsAtPath(partials[1], p) = << "X" >>
          /\ SnippetsAtPath(partials[2], p) = << "Y" >>
          /\ SnippetsAtPath(partials[3], p) = << "X" >>

\* C20: the count of the accumulated result is the number of distinct leaf
\* paths of the partial results merged, however many of them contributed to
\* a leaf; merging a partial result whose leaves are all present leaves the
\* count as it was
C20_CountIsDistinctLeaves ==
    /\ [](written =>
            componentCount =
                Cardinality(UNION { LeafPaths(partials[i]) : i \in Range(mergeOrder) }))
    /\ [][(mergeOrder' # mergeOrder /\ LeafPaths(MergedNow) \subseteq LeafPaths(componentData))
            => CountComponents(componentData') = CountComponents(componentData)
        ]_vars

\* The count was taken after three merges in which two partial results
\* contributed to the same leaf and another leaf was contributed once
C20_Witness ==
    /\ written
    /\ Len(mergeOrder) = 3
    /\ componentCount = 2
    /\ \E p \in MergePaths : Len(SnippetsAtPath(componentData, p)) = 3

(***************************************************************************)
(* Deduplication                                                           *)
(***************************************************************************)

\* C21: deduplication is idempotent: for every tree, deduplicating the
\* deduplicated tree gives the deduplicated tree again; the tree produced by
\* a second application is the one the first produced.
C21_DedupIdempotent ==
    /\ DeduplicateEcommerceSnippets(DeduplicateEcommerceSnippets(componentData))
           = DeduplicateEcommerceSnippets(componentData)
    /\ dedupCalls >= 1 => output = DeduplicateEcommerceSnippets(componentData)

\* A tree with duplicates has been deduplicated twice
C21_Witness ==
    /\ dedupCalls = 2
    /\ output # componentData

\* The key the specification names: {framework, version, darkModeFlag}
KeyOf(snippet) == << snippet.name, snippet.version, snippet.supportsDarkMode >>

\* The position in `snippets` of the first snippet carrying `key`
FirstAt(snippets, key) ==
    CHOOSE i \in DOMAIN snippets :
        /\ KeyOf(snippets[i]) = key
        /\ \A j \in 1 .. (i - 1) : KeyOf(snippets[j]) # key

\* `kept` holds, for each key of `snippets`, exactly the first snippet
\* carrying it, in the order these snippets have in `snippets`
KeepsFirstOfEachKey(snippets, kept) ==
    /\ { KeyOf(x) : x \in Range(kept) } = { KeyOf(x) : x \in Range(snippets) }
    /\ \A k \in DOMAIN kept : kept[k] = snippets[FirstAt(snippets, KeyOf(kept[k]))]
    /\ \A k, l \in DOMAIN kept :
           k < l => FirstAt(snippets, KeyOf(kept[k])) < FirstAt(snippets, KeyOf(kept[l]))

\* C22: the deduplicated tree has the component entries of the input, and each
\* holds, for every key {framework, version, darkModeFlag} of its snippets,
\* exactly the first snippet carrying the key, in the original relative order;
\* the input tree is never modified.
C22_KeepsFirstPerKey ==
    /\ [](dedupCalls >= 1 =>
             /\ LeafPaths(output) = LeafPaths(componentData)
             /\ \A q \in LeafPaths(componentData) :
                    KeepsFirstOfEachKey(SnippetsAtPath(componentData, q),
                                        SnippetsAtPath(output, q)))
    /\ [][componentData' = componentData]_vars

\* An entry lost a later snippet that differs from the first of its key, and
\* kept two snippets
C22_Witness ==
    /\ dedupCalls = 1
    /\ \E q \in LeafPaths(componentData) :
           LET snippets == SnippetsAtPath(componentData, q)
           IN  /\ Len(SnippetsAtPath(output, q)) = 2
               /\ Len(snippets) = 3
               /\ KeyOf(snippets[1]) = KeyOf(snippets[3])
               /\ snippets[1] # snippets[3]

\* C23: the deduplication removes nothing from a component entry whose
\* snippets carry a mode: the entry of the output holds the snippets of the
\* input, so snippets of one framework, version and darkModeFlag that differ
\* in mode are all written.
C23_ModeSnippetsUntouched ==
    dedupCalls >= 1 =>
        \A q \in LeafPaths(componentData) :
            LET snippets == SnippetsAtPath(componentData, q)
            IN  (\A i \in DOMAIN snippets : snippets[i].mode # NullMode)
                    => SnippetsAtPath(output, q) = snippets

(***************************************************************************)
(* The handshake                                                           *)
(***************************************************************************)

\* The positions inside resilientLogin
InAttempt == hpc \in { "loopHead", "race", "wait" }

\* The entries of the history that are answers to the retry prompt
AnswerEvents == { i \in DOMAIN hlog : \E a \in Answers : hlog[i] = AnswerEvent(a) }

\* The entries of the history that are prompts for credentials made by login
RepromptEvents == { i \in EventsOf("credentials_prompt") : hlog[i].n > 1 }

\* C24: in a non-interactive run a login attempt that yields the
\* bad-credentials signal ends the handshake at once with a DownloaderError:
\* the user is never asked, no credentials are prompted for by login, and no
\* second login attempt is made, so the handshake cannot loop.
C24_NonInteractiveBadCredentialsFatal ==
    /\ [](~interactive =>
             /\ AnswerEvents = {}
             /\ RepromptEvents = {}
             /\ LoginAttempts <= 1
             /\ EventsOf("bad_credentials") # {} =>
                    (hpc = "failed" /\ herror = "bad_credentials"))
    /\ [][(~interactive /\ hpc = "result" /\ result = "bad_credentials")
             => (hpc' = "failed" /\ herror' = "bad_credentials")]_vars

\* A non-interactive handshake failed on bad credentials
C24_Witness ==
    /\ ~interactive
    /\ hpc = "failed"
    /\ herror = "bad_credentials"
    /\ LoginAttempts = 1

\* C25: in an interactive run every login attempt after the first directly
\* follows a bad-credentials result, an answer of the user to the retry prompt
\* that is not an abort, and a prompt for credentials, and it uses the
\* credentials entered at that prompt, which no earlier attempt used; an
\* answer n or no ends the handshake with a DownloaderError and nothing
\* follows it.
C25_RetryOnlyAfterPrompt ==
    /\ \A i \in EventsOf("attempt") :
          (\E j \in EventsOf("attempt") : j < i) =>
              /\ i > 3
              /\ hlog[i - 3].ev = "bad_credentials"
              /\ i - 2 \in AnswerEvents
              /\ hlog[i - 2] \notin { AnswerEvent("n"), AnswerEvent("no") }
              /\ hlog[i - 1] = Event("credentials_prompt", hlog[i].n)
              /\ \A j \in EventsOf("attempt") : j < i => hlog[j].n # hlog[i].n
    /\ \A i \in DOMAIN hlog :
          hlog[i] \in { AnswerEvent("n"), AnswerEvent("no") } =>
              /\ i = Len(hlog)
              /\ hpc = "failed"
              /\ herror = "aborted"
    /\ \A i \in EventsOf("bad_credentials") :
          (interactive /\ i < Len(hlog)) => (i + 1) \in AnswerEvents

\* A second attempt was made with newly entered credentials
C25_Witness ==
    /\ interactive
    /\ LoginAttempts = 2
    /\ credentials = 2
    /\ hpc = "race"

\* C26: an iteration of resilientLogin won by the required-field validation
\* returns nothing to login: no result, no prompt, no error; the loop waits
\* and, while the time budget lasts, fills and submits the form again with
\* the same credentials.
C26_ValidationFailureRetriesFill ==
    /\ [][(hpc = "race" /\ settled' = "invalid_event")
             => (/\ hpc' = "wait"
                 /\ winner' = "validation_failed"
                 /\ UNCHANGED << result, hlog, credentials, herror >>)]_vars
    /\ [][(hpc = "wait" /\ winner = "validation_failed")
             => (hpc' = "loopHead" /\ UNCHANGED << result, hlog, credentials, herror >>)]_vars
    /\ [][(hpc = "loopHead" /\ WithinBudget(elapsed))
             => (hpc' \in { "race", "failed" } /\ UNCHANGED << result, hlog, credentials >>)]_vars
    /\ [](hpc = "wait" => EventsOf("bad_credentials") = {} \/ LoginAttempts > 1)

\* The form is submitted again, with the first credentials, after an iteration
\* in which the validation fired at once
C26_Witness ==
    /\ hpc = "race"
    /\ elapsed = retryWait
    /\ LoginAttempts = 1
    /\ credentials = 1
    /\ hlog[Len(hlog)] = Event("attempt", 1)

\* C27: when the evaluation of the validation detector is rejected because the
\* execution context was destroyed, and that settles the race, resilientLogin
\* returns success: login goes on to save the session.
C27_ContextDestroyedIsSuccess ==
    /\ [][(hpc = "race" /\ settled' = "context_destroyed")
             => (hpc' = "result" /\ result' = "success" /\ herror' = herror)]_vars
    /\ []((settled = "context_destroyed" /\ ~InAttempt)
             => (/\ result = "success"
                 /\ herror = "none"
                 /\ hpc \in { "result", "save", "done" }))

\* The session is being saved after an attempt whose race was settled by the
\* destruction of the execution context
C27_Witness ==
    /\ settled = "context_destroyed"
    /\ hpc = "save"

\* C28: a login attempt terminates.  Within the budget an iteration that timed
\* out is followed by a wait and another submission; beyond the budget
\* resilientLogin returns timeout, and on timeout login throws: nothing is
\* prompted and no attempt follows.
C28_LoginAttemptTerminates ==
    /\ InAttempt ~> ~InAttempt
    /\ [][(hpc = "race" /\ settled' = "outcome_timeout")
             => (hpc' = "wait" /\ UNCHANGED << result, hlog, herror >>)]_vars
    /\ [][(hpc = "loopHead" /\ ~WithinBudget(elapsed))
             => (hpc' = "result" /\ result' = "timeout")]_vars
    /\ [][(hpc = "result" /\ result = "timeout")
             => (hpc' = "failed" /\ herror' = "timeout")]_vars
    /\ [](\A i \in EventsOf("timeout") :
             i = Len(hlog) /\ hpc = "failed" /\ herror = "timeout")
    /\ [](InAttempt => elapsed < loginTimeout + outcomeTimeout + retryWait)

\* resilientLogin found the budget exhausted after an iteration that timed out
C28_Witness ==
    /\ hpc = "failed"
    /\ herror = "timeout"
    /\ settled = "none"
    /\ LoginAttempts = 1

\* C29: validateSession never throws: whatever fails in it, ensureAuthenticated
\* goes on to resolveCredentials and then calls login.
C29_ValidationNeverAborts ==
    /\ [](herror # "validation")
    /\ [][(hpc \in { "validateGoto", "validateCheck" })
             => (hpc' \in { "validateGoto", "validateCheck", "done", "resolve" })]_vars
    /\ [][(hpc \in { "validateGoto", "validateCheck" } /\ hpc' = "done")
             => (hlog' = Append(hlog, Event("valid", 0)))]_vars
    /\ [](EventsOf("invalid") # {} =>
             (hpc = "resolve" \/ EventsOf("credentials_file") \cup EventsOf("credentials_prompt") # {}))
    /\ [][(hpc = "resolve") => (hpc' = "loginGoto" /\ credentials' = 1)]_vars

\* Navigation to the Plus page failed maxRetries times during the validation
\* and a login attempt is running
C29_Witness ==
    /\ hlog # << >>
    /\ hlog[1] = Event("invalid", maxRetries)
    /\ hpc = "race"

\* The entries of the history that are calls of saveSession
SaveEvents == EventsOf("saved") \cup EventsOf("save_failed")

\* The stored session validated: nothing but the validation has happened
ValidSkipsLogin ==
    EventsOf("valid") # {} =>
        /\ hlog = << Event("valid", 0) >>
        /\ hpc = "done"
        /\ credentials = 0
        /\ sessionFile = "valid"

C31_SessionStoreNeverFails ==
    /\ sessionFile \in { "absent", "corrupt" } => contextOptions = "empty"
    /\ contextOptions = "empty" =>
          /\ EventsOf("valid") = {}
          /\ hpc = "done" => EventsOf("success") # {}
    /\ EventsOf("save_failed") # {} =>
          /\ hpc = "done"
          /\ herror = "none"
          /\ sessionFile # "fresh"

\* A corrupt session file was loaded as no session, the login succeeded and
\* the write of the new session failed: the handshake is complete
C31_Witness ==
    /\ sessionFile = "corrupt"
    /\ contextOptions = "empty"
    /\ hpc = "done"
    /\ hlog[Len(hlog)].ev = "save_failed"

\* C32: in a non-interactive run without a credentials file, once the stored
\* session was found invalid the handshake fails with a user-facing error:
\* no prompt for credentials is issued and no login attempt is made.
C32_NoCredentialsNonInteractiveAborts ==
    (~interactive /\ ~credFile /\ EventsOf("invalid") # {} /\ hpc # "resolve") =>
        /\ hpc = "failed"
        /\ herror # "none"
        /\ EventsOf("credentials_prompt") = {}
        /\ EventsOf("attempt") = {}

\* C33: URL discovery retries within its own budget.  A successful attempt
\* returns the list at once; a failed attempt is retried while fewer than
\* maxRetries retries were made, so at most maxRetries + 1 attempts are
\* made; when the last of them fails the run ends with a run-fatal error
\* and no worker pool is started and no output written, then or later.
C33_DiscoveryRetriesWithinBudget ==
    /\ [](/\ attempt <= maxRetries + 1
          /\ (orch \notin { "discover", "exited" }) => attempt = 0
          /\ attempt = maxRetries + 1 =>
                /\ orch = "exited"
                /\ err
                /\ ~written
                /\ jobs = << >>
                /\ \A w \in Workers : wpc[w] = "idle" /\ wstate[w] = "stopped")
    /\ [][(attempt' # attempt) =>
             (/\ orch = "discover"
              /\ \/ attempt' = 0 /\ orch' = "runDownload"
                 \/ attempt' = attempt + 1 /\ attempt < maxRetries /\ orch' = "discover"
                 \/ attempt' = maxRetries + 1 /\ orch' = "exited")]_vars
    /\ [][(orch = "discover" /\ orch' # "discover") =>
             (\/ orch' = "runDownload" /\ attempt' = 0 /\ ~err'
              \/ orch' = "exited" /\ attempt' = maxRetries + 1 /\ err')]_vars
    /\ [][(orch = "exited") => (orch' = "exited" /\ written' = written /\ wpc' = wpc)]_vars

\* Every attempt of the discovery failed, the last one after maxRetries
\* retries: the run has exited with the error
C33_Witness ==
    /\ orch = "exited"
    /\ err
    /\ attempt = maxRetries + 1
    /\ ~written

\* C34: when the output path exists and --overwrite was not given, a run
\* whose overwrite prompt is not answered with yes, and so every run whose
\* standard input is not a terminal, exits with the error before the browser
\* is launched, before authentication and before any download, and the
\* existing output is not written again; with --overwrite no prompt is made.
C34_UnconfirmedOverwriteAborts ==
    /\ (/\ outputExists
        /\ ~overwrite
        /\ orch \notin { "start", "prompt" }
        /\ (~Confirms(overwriteAnswer) \/ stdin # "tty")) =>
          /\ orch = "exited"
          /\ err
          /\ browser = "none"
          /\ mainSession = "none"
          /\ jobs = << >>
          /\ ~written
    /\ overwrite => (orch # "prompt" /\ overwriteAnswer = << >>)

\* A pass begins: the queue is populated and the pool started
PassBegins == orch # "awaitStart" /\ orch' = "awaitStart"

\* No worker coroutine exists and no worker holds a Job
PoolAtRest == \A w \in Workers : wpc[w] \in { "idle", "stopped" } /\ held[w] = NoJob

\* C35: the run authenticates at most once, before any worker starts.  An
\* authenticated run makes one pass per format of the generated sequence, in
\* its order; an unauthenticated run makes one pass, without authentication
\* or format change.  Every pass begins with one Job per URL in the queue,
\* Pending with retry count 0, and the pool of a pass has run to completion
\* before the next pass begins and before the run completes.
C35_PassSchedule ==
    /\ [](/\ unauthenticated => (mainSession = "none" /\ fmtIdx = 0 /\ orch # "setFormat")
          /\ (\E w \in Workers : wpc[w] # "idle") => (unauthenticated \/ mainSession # "none")
          /\ fmtIdx \in 0 .. numFormats
          /\ (orch = "done" /\ ~unauthenticated) => fmtIdx = numFormats
          /\ written => (PoolAtRest /\ (unauthenticated \/ fmtIdx = numFormats)))
    /\ [][/\ (mainSession' # mainSession) =>
                (mainSession = "none" /\ orch = "init" /\ \A w \in Workers : wpc[w] = "idle")
          /\ PassBegins =>
                (/\ jobs' = NewJobs
                 /\ jobQueue' = [i \in 1 .. numUrls |-> i]
                 /\ \A u \in Urls : jobs'[u].status = "pending" /\ jobs'[u].retryCount = 0
                 /\ PoolAtRest
                 /\ orch = (IF unauthenticated THEN "runDownload" ELSE "setFormat"))
          /\ (orch # "setFormat" /\ orch' = "setFormat") => (fmtIdx' = fmtIdx + 1)
          /\ (orch = "runDownload") => (orch' \in { "runDownload", "awaitStart", "setFormat", "exited" })
          /\ (orch' = "runDownload") => (orch \in { "runDownload", "discover" })
          /\ (fmtIdx' # fmtIdx) =>
                (/\ fmtIdx' = fmtIdx + 1
                 /\ orch' = "setFormat"
                 /\ PoolAtRest
                 /\ (fmtIdx = 0 /\ orch = "runDownload") \/ (fmtIdx >= 1 /\ orch = "awaitStop"))
       ]_vars

\* The second pass of an authenticated run has begun after a first pass in
\* which two workers ran and results were merged
C35_Witness ==
    /\ orch = "awaitStart"
    /\ fmtIdx = 2
    /\ mainSession # "none"
    /\ componentData # << >>
    /\ \A u \in Urls : jobs[u].retryCount = 0
    /\ \E v, w \in Workers : v # w /\ context[v] # "null" /\ context[w] # "null"

\* The position of a control in the order framework, version, mode
ControlIndex(c) == CHOOSE i \in DOMAIN Controls : Controls[i] = c

\* C36: setFormat changes one control at a time in the order framework,
\* version, mode, and triggers a change only when the one before is
\* confirmed, so that at most one format-change request is in flight; it
\* changes nothing when the current format equals the target; it returns
\* normally only if the format read back equals the target, and whenever it
\* does not return normally the error it raises is the user-facing one.
C36_SetFormatSequential ==
    /\ [](/\ inflight <= 1
          /\ \A i, j \in DOMAIN changes :
                i < j => ControlIndex(changes[i]) < ControlIndex(changes[j])
          /\ sfpc = "returned" => (Equals(site, targetFormat) /\ inflight = 0)
          /\ sfpc = "threw" => sferror = "DownloaderError")
    /\ [][/\ (changes' # changes) => (inflight = 0 /\ awaited = "none" /\ inflight' = 1)
          /\ (sfpc = "read" /\ Equals(site, targetFormat)) =>
                (sfpc' \in { "read", "returned", "threw" } /\ changes' = << >>)
          /\ (site' # site) =>
                (\E c \in Range(Controls) :
                    /\ awaited = c
                    /\ changes[Len(changes)] = c
                    /\ site' = [site EXCEPT ![c] = targetFormat[c]])
       ]_vars

\* How often url u is in the queue
InQueue(u) == Cardinality({ i \in DOMAIN jobQueue : jobQueue[i] = u })

\* The workers that hold the Job of url u
Holders(u) == { w \in Workers : held[w] = u }

\* The places the Job of url u can be in; each lists the status that goes
\* with it
Queued(u) ==
    /\ InQueue(u) = 1
    /\ Holders(u) = {}
    /\ jobs[u].status = "pending"
    /\ << fmtIdx, u >> \notin droppedJobs

HeldByOne(u) ==
    /\ InQueue(u) = 0
    /\ Cardinality(Holders(u)) = 1
    /\ \A w \in Holders(u) :
          \/ wpc[w] = "extract" /\ jobs[u].status = "processing"
          \/ wpc[w] = "report" /\ jobs[u].status \in { "completed", "failed" }
    /\ << fmtIdx, u >> \notin droppedJobs

CompletedAndMerged(u) ==
    /\ InQueue(u) = 0
    /\ Holders(u) = {}
    /\ jobs[u].status = "completed"
    /\ MergedInPass(u, fmtIdx)
    /\ << fmtIdx, u >> \notin droppedJobs

DroppedForGood(u) ==
    /\ InQueue(u) = 0
    /\ Holders(u) = {}
    /\ jobs[u].status = "failed"
    /\ jobs[u].retryCount = maxRetries
    /\ << fmtIdx, u >> \in droppedJobs
    /\ ~MergedInPass(u, fmtIdx)

\* C37: within a pass every Job is in exactly one place, with the status of
\* that place: in the queue once and Pending; held by exactly one worker and
\* Processing, or Completed or Failed and about to be reported; Completed
\* and merged; or dropped after its retries were used up.  The Jobs of the
\* pass are as many as the urls, no more and no fewer.  A pass lasts from
\* the population of the queue to the completion of the pool's stop().
C37_JobConservation ==
    orch \in { "awaitStart", "awaitStop" } =>
        /\ DOMAIN jobs = Urls
        /\ Len(jobs) = numUrls
        /\ Range(jobQueue) \subseteq Urls
        /\ \A w \in Workers : held[w] \in Urls \cup { NoJob }
        /\ \A u \in Urls :
              Cardinality({ place \in { "queue", "worker", "merged", "dropped" } :
                  CASE place = "queue" -> Queued(u)
                    [] place = "worker" -> HeldByOne(u)
                    [] place = "merged" -> CompletedAndMerged(u)
                    [] place = "dropped" -> DroppedForGood(u) }) = 1

\* In one pass a Job is in the queue again after a failure while another is
\* held by a worker
C37_Witness ==
    /\ orch = "awaitStart"
    /\ \E u \in Urls : Queued(u) /\ jobs[u].retryCount > 0
    /\ \E u \in Urls : HeldByOne(u)

\* The snippets a merge of url u's result adds in the current pass
PassSnippets ==
    IF unauthenticated THEN [i \in 1 .. numFormats |-> i] ELSE << fmtIdx >>

\* The worker whose processJobResult call is the step, if the step is one
Reporting(w) == wpc[w] = "report" /\ wpc'[w] = "loop"

\* C38: each URL contributes at most one merged partial result per pass,
\* whatever the failures and retries: the accumulated result changes only in
\* the report of a Completed Job whose URL has nothing merged in this pass
\* yet, and then by this pass's snippets of that URL alone; the report of a
\* Failed Job merges nothing.  Hence after an authenticated run without
\* dropped Jobs every leaf holds exactly one snippet per format pass, in the
\* order of the passes, each extracted under that pass's format.
C38_OneMergePerUrlAndPass ==
    /\ [](/\ \A u \in Urls :
                LET snippets == SnippetsAt(componentData, u) IN
                /\ \A i, j \in DOMAIN snippets : i # j => snippets[i] # snippets[j]
                /\ ~unauthenticated => Range(snippets) \subseteq 1 .. fmtIdx
                /\ \A f \in Range(snippets) :
                      << (IF unauthenticated THEN 0 ELSE f), u >> \notin droppedJobs
          /\ (written /\ ~unauthenticated /\ droppedJobs = {}) =>
                \A u \in Urls :
                    SnippetsAt(componentData, u) = [i \in 1 .. numFormats |-> i])
    /\ [][/\ (componentData' # componentData) =>
                (\E w \in Workers, u \in Urls :
                    /\ held[w] = u
                    /\ Reporting(w)
                    /\ jobs[u].status = "completed"
                    /\ ~MergedInPass(u, fmtIdx)
                    /\ SnippetsAt(componentData', u)
                         = SnippetsAt(componentData, u) \o PassSnippets
                    /\ \A v \in Urls \ { u } :
                          SnippetsAt(componentData', v) = SnippetsAt(componentData, v))
          /\ \A w \in Workers, u \in Urls :
                (held[w] = u /\ Reporting(w) /\ jobs[u].status = "failed") =>
                    (componentData' = componentData)
          /\ \A w \in Workers, u \in Urls :
                (held[w] = u /\ Reporting(w) /\ jobs[u].status = "completed") =>
                    (MergedInPass(u, fmtIdx)' /\ jobs'[u].status = "completed")
       ]_vars

\* An authenticated run of two passes without dropped Jobs is written; a
\* Job of the last pass failed before it was completed
C38_Witness ==
    /\ written
    /\ ~unauthenticated
    /\ numFormats = 2
    /\ droppedJobs = {}
    /\ \E u \in Urls : attempts[u] > 1 /\ SnippetsAt(componentData, u) = << 1, 2 >>

\* Every pass of the run has completed
AllPassesCompleted ==
    /\ unauthenticated \/ fmtIdx = numFormats
    /\ jobs # << >>
    /\ jobQueue = << >>
    /\ PoolAtRest

\* C39: the output is written only after every pass has completed.  A run
\* that aborts with an error at any point (authentication, discovery, format
\* detection, a format change before any pass, a worker that cannot start)
\* has written no output and writes none, although the results of the passes
\* already completed are in the accumulated result.
C39_WrittenOnlyAfterAllPasses ==
    /\ [](/\ written => (AllPassesCompleted /\ ~err)
          /\ written => orch \in { "stopMainPage", "closeBrowser", "done" }
          /\ err => ~written
          /\ orch = "done" => written)
    /\ [][/\ (written' # written) =>
                (/\ ~written
                 /\ orch = "awaitStop"
                 /\ AllStopped
                 /\ ~err
                 /\ AllPassesCompleted')
          /\ (err' # err) => (err' /\ ~written /\ orch' \in { "exited", "stopMainPage" })
          /\ (orch = "exited") => (written' = written)
       ]_vars

\* The format change before the second pass failed: the run has exited with
\* the result of the first pass accumulated and nothing written
C39_Witness ==
    /\ orch = "exited"
    /\ err
    /\ fmtIdx = 2
    /\ componentData # << >>
    /\ ~written

\* C40: the session round-trips through the session file: what a login saves
\* is written to the path the run loaded its session from (the --session
\* path), and the following run with the same options loads the session the
\* preceding run saved
C40_SessionRoundTrip ==
    /\ (savedTo # "none") => (savedTo = optSession)
    /\ (runNo > 1 /\ rtpc = "validate" /\ savedTo # "none")
          => (contextOptions = "fresh")

====
